---------------------------- MODULE Spec2Model ----------------------------
(***************************************************************************)
(* Control plane of Muelsyse-CI: execution numbering, the runner session   *)
(* protocol (handshake, heartbeat, status, job completion, artifacts),     *)
(* the cancel command, log storage and the log fan-out to subscribers.     *)
(* The trigger matcher, the matrix expander, the parser's checks, the      *)
(* tenant middleware, the readiness test of a job, the read of the log     *)
(* backlog and the API key lookups are functions, evaluated on inputs      *)
(* drawn from small sets. A worker thread with its thread-local tenant     *)
(* serves requests one after the other.                                    *)
(*                                                                         *)
(* Storage (the Django ORM over PostgreSQL) is modelled row by row; every  *)
(* ORM statement is one atomic step, and a handler that issues several     *)
(* statements whose interleaving matters is split at the statements.       *)
(***************************************************************************)
EXTENDS Integers, Sequences, FiniteSets, TLC

\* ------------------------------------------------------------------ bounds

NumTenants == 2
NumPipelines == 2
NumRequests == 3
NumCancels == 1
NumRunners == 2
NumSessions == 2
NumJobs == 3
NumSteps == 1
NumTokens == 2
NumSubscribers == 1
NumExecutions == 2
NumContents == 1
MaxChunks == 3
NumUpdates == 3
NumEdits == 2
NumDeliveries == 2
\* the clock: seconds a step of time takes, and the time it stops at
TickSeconds == 30
MaxNow == 130
\* the backlog: the slice [:1000] of get_existing_logs scaled down, and the
\* chunks stored when the backlog is read
BacklogLimit == 2
MaxBacklog == 3
\* the TenantContext blocks a handler nests
MaxBlocks == 2

\* None / null reference / empty string
Null == 0

Tenants == 1..NumTenants
Pipelines == 1..NumPipelines
Requests == 1..NumRequests
Cancels == 1..NumCancels
Runners == 1..NumRunners
Sessions == 1..NumSessions
Jobs == 1..NumJobs
Steps == 1..NumSteps
\* query-string tokens; Null is the missing token
Tokens == 0..NumTokens
Subscribers == 1..NumSubscribers

\* ------------------------------------------------------------- the schema

ExecutionStatus ==
    {"pending", "queued", "running", "success", "failed", "cancelled", "timeout", "skipped"}

JobStatus ==
    {"pending", "queued", "running", "success", "failed", "cancelled", "timeout", "skipped"}

StepStatus ==
    {"pending", "running", "success", "failed", "cancelled", "timeout", "skipped"}

TerminalStatus == {"success", "failed", "cancelled", "timeout", "skipped"}

\* a pipeline belongs to one tenant
PipelineTenant(p) == ((p - 1) % NumTenants) + 1

VARIABLES
    executions,   \* set of Execution rows
    requests,     \* the requests that create executions, each at its statement
    cancels,      \* the cancel commands, each at its statement
    runners,      \* Runner rows
    jobs,         \* Job rows
    steps,        \* Step rows
    sessions,     \* runner sessions (RunnerConsumer instances)
    groups,       \* channel layer: set of <<group name, channel>>
    outbox,       \* frames sent to runner sessions other than the replies
    artifacts,    \* Artifact rows
    logChunks,    \* LogChunk rows
    logWriters,   \* store_log calls between their SELECT and their INSERT
    subscribers,  \* log subscribers (LogConsumer instances)
    configs,      \* set of PipelineConfig rows
    updates,      \* the requests that store a config, each at its statement
    pipelines,    \* Pipeline rows
    now,          \* timezone.now(), in seconds
    call,         \* the evaluation of a function: its input, then its result
    thread        \* a worker thread: its thread-local tenant and the request it serves

vars == <<executions, requests, cancels, runners, jobs, steps, sessions, groups,
          outbox, artifacts, logChunks, logWriters, subscribers, configs, updates,
          pipelines, now, call, thread>>

evalVars == <<now, call, thread>>
configVars == <<configs, updates, pipelines>>
numberingVars == <<executions, requests, cancels, configVars>>
runnerVars == <<runners, sessions, groups, outbox>>
jobVars == <<jobs, steps, artifacts>>
logVars == <<logChunks, logWriters, subscribers>>

\* ------------------------------------------------------ pipeline configs

Updates == 1..NumUpdates

\* the config_yaml texts: one the parser rejects, one without and one with a
\* concurrency group
Yamls == {"invalid", "plain", "grouped"}

\* parse_pipeline_yaml: the parsed config and the list of errors
ParsePipelineYaml(yaml) ==
    [errors |-> IF yaml = "invalid" THEN <<"invalid yaml">> ELSE <<>>,
     concurrency |-> IF yaml = "grouped"
                     THEN [group |-> "deploy", cancel_in_progress |-> FALSE]
                     ELSE [group |-> "", cancel_in_progress |-> FALSE]]

SetMax(S) == CHOOSE x \in S : \A y \in S : y <= x

PipelineConfigs(p) == {c \in configs : c.pipeline = p}

ConfigById(id) == CHOOSE c \in configs : c.id = id

\* pipeline.configs.order_by('-version').first(), and
\* (last_version.version + 1) if last_version else 1
NextVersion(p) ==
    IF PipelineConfigs(p) = {} THEN 1
    ELSE SetMax({c.version : c \in PipelineConfigs(p)}) + 1

\* picks the valid config of the lowest version
OldestValidConfig(p) ==
    LET valid == {c \in PipelineConfigs(p) : c.is_valid}
    IN IF valid = {} THEN Null
       ELSE (CHOOSE c \in valid : \A d \in valid : c.version <= d.version).id

\* Pipeline.get_latest_config: configs.filter(is_valid=True).order_by('-version')
\* .first(), as the id of the row, Null for None
LatestConfig(p) ==
    LET valid == {c \in PipelineConfigs(p) : c.is_valid}
    IN IF valid = {} THEN Null
       ELSE (CHOOSE c \in valid : \A d \in valid : d.version <= c.version).id

\* no constraint on (pipeline, version)
NoConfigConstraint(p, v) == FALSE

\* PipelineConfig.Meta: unique_together = ['pipeline', 'version']
ConfigUniqueViolation(p, v) == \E c \in configs : c.pipeline = p /\ c.version = v

IdleUpdate == [kind |-> "none", pc |-> "idle", pipeline |-> Null, version |-> 0,
               config_yaml |-> ""]

\* update_config up to its SELECT of the last version; an empty config_yaml is
\* answered 400
UpdateConfigReadVersion(u, p, yaml) ==
    /\ updates[u].pc = "idle"
    /\ updates' = [updates EXCEPT ![u] =
          IF yaml = ""
          THEN [kind |-> "update", pc |-> "bad_request", pipeline |-> p, version |-> 0,
                config_yaml |-> yaml]
          ELSE [kind |-> "update", pc |-> "read", pipeline |-> p,
                version |-> NextVersion(p), config_yaml |-> yaml]]
    /\ UNCHANGED <<executions, requests, cancels, configs, pipelines, runnerVars,
                   jobVars, logVars, evalVars>>

\* PipelineCreateSerializer.create after super().create: the pipeline is new,
\* nothing refers to it yet, and its config_yaml is stored as version 1
PipelineCreate(u, p, yaml) ==
    /\ updates[u].pc = "idle"
    /\ PipelineConfigs(p) = {}
    /\ \A e \in executions : e.pipeline # p
    /\ \A v \in Updates : updates[v].pipeline # p
    /\ \A r \in DOMAIN requests : requests[r].pipeline # p
    /\ updates' = [updates EXCEPT ![u] =
          IF yaml = ""
          THEN [kind |-> "create", pc |-> "created", pipeline |-> p, version |-> 0,
                config_yaml |-> yaml]
          ELSE [kind |-> "create", pc |-> "read", pipeline |-> p, version |-> 1,
                config_yaml |-> yaml]]
    /\ UNCHANGED <<executions, requests, cancels, configs, pipelines, runnerVars,
                   jobVars, logVars, evalVars>>

\* PipelineConfig.objects.create(version=...): the INSERT, which the unique
\* constraint on (pipeline, version) refuses with an IntegrityError
StoreConfig(u) ==
    LET q == updates[u] IN
    /\ q.pc = "read"
    /\ IF ConfigUniqueViolation(q.pipeline, q.version)
       THEN /\ updates' = [updates EXCEPT ![u].pc = "conflict"]
            /\ UNCHANGED configs
       ELSE /\ configs' = configs \cup
                  {[id |-> Cardinality(configs) + 1, pipeline |-> q.pipeline,
                    version |-> q.version, config_yaml |-> q.config_yaml,
                    is_valid |-> Len(ParsePipelineYaml(q.config_yaml).errors) = 0]}
            /\ updates' = [updates EXCEPT ![u].pc = "created"]
    /\ UNCHANGED <<executions, requests, cancels, pipelines, runnerVars, jobVars,
                   logVars, evalVars>>

\* ----------------------------------------------------- webhook signatures

\* Pipeline.webhook_secret, blank when the pipeline has none
WebhookSecret(p) == pipelines[p].webhook_secret

\* GitHubSignatureVerifier._compute_signature, the payload being fixed
ComputeSignature(secret) == (secret * 5 + 2) % 7

\* the X-Hub-Signature-256 header: <<>> when missing, else prefix and digest
Signatures ==
    {<<>>} \cup {<<prefix, ComputeSignature(secret)>> :
                    prefix \in {"sha256=", "sha1="}, secret \in Pipelines}

\* verify without the test of the prefix
VerifyAnyPrefix(signature, secret) ==
    /\ signature # <<>>
    /\ signature[2] = ComputeSignature(secret)

\* GitHubSignatureVerifier.verify with a secret
VerifyGithubSignature(signature, secret) ==
    /\ signature # <<>>
    /\ signature[1] = "sha256="
    /\ signature[2] = ComputeSignature(secret)

\* _verify_signature_for_pipelines returns a pipeline: some secret validates the
\* signature, or no candidate has a secret
VerifySignatureForPipelines(signature, candidates) ==
    \/ \E i \in DOMAIN candidates :
          /\ WebhookSecret(candidates[i]) # Null
          /\ VerifyGithubSignature(signature, WebhookSecret(candidates[i]))
    \/ \A i \in DOMAIN candidates : WebhookSecret(candidates[i]) = Null

\* _find_pipelines_by_repository: the active pipelines of the repository, in
\* the order of the queryset
CandidateLists ==
    {<<>>} \cup {<<p>> : p \in Pipelines}
           \cup {pq \in Pipelines \X Pipelines : pq[1] < pq[2]}

\* ------------------------------------------------------ execution numbering

PipelineExecutions(p) == {e \in executions : e.pipeline = p}

PipelineNumbers(p) == {e.number : e \in PipelineExecutions(p)}

\* Execution.objects.filter(pipeline=p).order_by('-number')
\*     .values_list('number', flat=True).first() or 0
LastNumber(p) == IF PipelineNumbers(p) = {} THEN 0 ELSE SetMax(PipelineNumbers(p))

\* Execution.objects.filter(pipeline=p).count()
CountExecutions(p) == Cardinality(PipelineExecutions(p))

NextId == IF executions = {} THEN 1 ELSE SetMax({e.id : e \in executions}) + 1

\* unique_together = ['pipeline', 'number']
UniqueViolation(p, n) == \E e \in executions : e.pipeline = p /\ e.number = n

\* the created row; no creation sets concurrency_group
NewExecution(p, n, trigger, config, delivery, retry) ==
    [id |-> NextId, tenant |-> PipelineTenant(p), pipeline |-> p, number |-> n,
     trigger_type |-> trigger, status |-> "pending", finished_at |-> FALSE,
     pipeline_config |-> config, delivery_id |-> delivery, retry_of |-> retry,
     concurrency_group |-> ""]

IdleRequest ==
    [kind |-> "none", pc |-> "idle", pipeline |-> Null, number |-> 0,
     config |-> Null, retry_of |-> Null, candidates |-> <<>>, rest |-> <<>>,
     signature |-> <<>>, deleted |-> FALSE, triggered |-> 0]

\* GitHubWebhookView.post up to _process_event: no candidate pipeline is
\* answered 200, a signature that does not verify 401
WebhookPost(r, kind, candidates, signature, deleted) ==
    /\ requests[r].pc = "idle"
    /\ kind \in {"push", "pull_request"}
    /\ deleted => kind = "push"
    /\ requests' = [requests EXCEPT ![r] =
          [IdleRequest EXCEPT
              !.kind = kind, !.candidates = candidates, !.signature = signature,
              !.deleted = deleted,
              !.rest = IF VerifySignatureForPipelines(signature, candidates)
                       THEN candidates ELSE <<>>,
              !.pc = IF candidates = <<>> THEN "no_pipelines"
                     ELSE IF ~VerifySignatureForPipelines(signature, candidates)
                     THEN "unauthorized"
                     ELSE "evaluate"]]
    /\ UNCHANGED <<executions, cancels, configVars, runnerVars, jobVars, logVars, evalVars>>

\* _process_event goes on to the next candidate pipeline, or post responds
NextCandidate(q, outcome) ==
    [q EXCEPT !.rest = Tail(q.rest),
              !.pc = IF Tail(q.rest) = <<>> THEN outcome ELSE "evaluate"]

\* _process_event for the next candidate of a push: the pipeline is passed over
\* without a valid config, when the matcher refuses the event and when the
\* branch was deleted; else the handler runs up to its SELECT of the last number
PushReadLastNumber(r, matches) ==
    LET q == requests[r]
        p == Head(q.rest) IN
    /\ q.pc = "evaluate"
    /\ q.kind = "push"
    /\ requests' = [requests EXCEPT ![r] =
          IF LatestConfig(p) = Null \/ ~matches \/ q.deleted
          THEN NextCandidate([q EXCEPT !.pipeline = p], "skipped")
          ELSE [q EXCEPT !.pc = "read", !.pipeline = p, !.config = LatestConfig(p),
                         !.number = LastNumber(p) + 1]]
    /\ UNCHANGED <<executions, cancels, configVars, runnerVars, jobVars, logVars, evalVars>>

\* _process_event for the next candidate of a pull_request
PullRequestReadLastNumber(r, matches) ==
    LET q == requests[r]
        p == Head(q.rest) IN
    /\ q.pc = "evaluate"
    /\ q.kind = "pull_request"
    /\ requests' = [requests EXCEPT ![r] =
          IF LatestConfig(p) = Null \/ ~matches
          THEN NextCandidate([q EXCEPT !.pipeline = p], "skipped")
          ELSE [q EXCEPT !.pc = "read", !.pipeline = p, !.config = LatestConfig(p),
                         !.number = LastNumber(p) + 1]]
    /\ UNCHANGED <<executions, cancels, configVars, runnerVars, jobVars, logVars, evalVars>>

\* the manual trigger up to its COUNT; without a valid config it is answered 400
TriggerCount(r, p) ==
    /\ requests[r].pc = "idle"
    /\ requests' = [requests EXCEPT ![r] =
          IF LatestConfig(p) = Null
          THEN [IdleRequest EXCEPT !.kind = "manual", !.pc = "no_config",
                                   !.pipeline = p]
          ELSE [IdleRequest EXCEPT !.kind = "manual", !.pc = "read", !.pipeline = p,
                                   !.config = LatestConfig(p),
                                   !.number = CountExecutions(p) + 1]]
    /\ UNCHANGED <<executions, cancels, configVars, runnerVars, jobVars, logVars, evalVars>>

\* the config of a retry reads the latest config of the pipeline
RetryLatestConfig(e) == LatestConfig(e.pipeline)

\* retry: pipeline_config=execution.pipeline_config
RetryConfig(e) == e.pipeline_config

\* retry of a failed, cancelled or timed out execution up to its COUNT
RetryCount(r, e) ==
    /\ requests[r].pc = "idle"
    /\ e \in executions
    /\ e.status \in {"failed", "cancelled", "timeout"}
    /\ requests' = [requests EXCEPT ![r] =
          [IdleRequest EXCEPT !.kind = "retry", !.pc = "read", !.pipeline = e.pipeline,
                              !.config = RetryConfig(e), !.retry_of = e.id,
                              !.number = CountExecutions(e.pipeline) + 1]]
    /\ UNCHANGED <<executions, cancels, configVars, runnerVars, jobVars, logVars, evalVars>>

TriggerTypeOf(kind) == IF kind \in {"manual", "retry"} THEN "manual" ELSE kind

\* Execution.objects.create(number=...): the INSERT, which the unique
\* constraint on (pipeline, number) refuses with an IntegrityError that nothing
\* catches; then pipeline.save(update_fields=['last_execution_at']), which a
\* retry leaves out; a webhook goes on to its next candidate
CreateExecution(r) ==
    LET q == requests[r] IN
    /\ q.pc = "read"
    /\ IF UniqueViolation(q.pipeline, q.number)
       THEN /\ requests' = [requests EXCEPT ![r].pc = "conflict"]
            /\ UNCHANGED <<executions, pipelines>>
       ELSE /\ executions' = executions \cup
                  {NewExecution(q.pipeline, q.number, TriggerTypeOf(q.kind), q.config,
                                IF q.kind \in {"push", "pull_request"} THEN r ELSE Null,
                                q.retry_of)}
            /\ pipelines' = IF q.kind = "retry" THEN pipelines
                            ELSE [pipelines EXCEPT ![q.pipeline].last_execution_at = NextId]
            /\ requests' = [requests EXCEPT ![r] =
                  IF q.kind \in {"push", "pull_request"}
                  THEN NextCandidate([q EXCEPT !.triggered = @ + 1], "created")
                  ELSE [q EXCEPT !.pc = "created", !.triggered = 1]]
    /\ UNCHANGED <<cancels, configs, updates, runnerVars, jobVars, logVars, evalVars>>

\* past executions are pruned: a terminal execution that no cancel command is
\* working on is deleted
PruneExecution(e) ==
    /\ e \in executions
    /\ e.status \in TerminalStatus
    /\ \A c \in DOMAIN cancels :
          cancels[c].execution = e.id => cancels[c].pc \notin {"checked", "saved"}
    /\ \A j \in DOMAIN jobs : jobs[j].execution # e.id
    /\ executions' = executions \ {e}
    /\ UNCHANGED <<requests, cancels, configVars, runnerVars, jobVars, logVars, evalVars>>

\* ---------------------------------------------------------- trigger matcher

\* Strings are sequences of characters. A compiled pattern is a sequence of
\* literal characters and of the items "ANY" (.* with DOTALL), "SEG" ([^/]*)
\* and "ONE" (.).

\* re.match of a value against an anchored compiled pattern
RECURSIVE ReMatch(_, _)
ReMatch(re, s) ==
    IF re = <<>> THEN s = <<>>
    ELSE LET h == Head(re)
             rest(k) == SubSeq(s, k + 1, Len(s))
         IN  CASE h = "ANY" -> \E k \in 0..Len(s) : ReMatch(Tail(re), rest(k))
               [] h = "SEG" -> \E k \in 0..Len(s) :
                                  /\ \A i \in 1..k : s[i] # "/"
                                  /\ ReMatch(Tail(re), rest(k))
               [] h = "ONE" -> s # <<>> /\ ReMatch(Tail(re), Tail(s))
               [] OTHER -> s # <<>> /\ Head(s) = h /\ ReMatch(Tail(re), Tail(s))

\* str.replace applied twice, from the left: "**" by twoStars, then every "*"
\* left in the pattern or brought in by twoStars by oneStar; "?" by question
RECURSIVE Translate(_, _, _, _)
Translate(pattern, twoStars, oneStar, question) ==
    IF pattern = <<>> THEN <<>>
    ELSE IF Len(pattern) >= 2 /\ pattern[1] = "*" /\ pattern[2] = "*"
         THEN twoStars \o Translate(SubSeq(pattern, 3, Len(pattern)),
                                    twoStars, oneStar, question)
         ELSE (CASE Head(pattern) = "*" -> oneStar
                 [] Head(pattern) = "?" -> question
                 [] OTHER -> <<Head(pattern)>>)
              \o Translate(Tail(pattern), twoStars, oneStar, question)

\* PipelineMatcher._matches_pattern: re.escape, then \*\* -> .*, \* -> [^/]*,
\* \? -> .
MatchesPattern(value, pattern) ==
    \/ value = pattern
    \/ ReMatch(Translate(pattern, <<"ANY">>, <<"SEG">>, <<"ONE">>), value)

\* PipelineMatcher._matches_path_pattern: fnmatch (every * is .*), then for a
\* pattern with "**" the regex made by replace('**', '.*') followed by
\* replace('*', '[^/]*'), which also rewrites the star of the ".*" just made.
\* Patterns with "?" are not drawn: the second conversion leaves it a quantifier.
MatchesPathPattern(path, pattern) ==
    \/ ReMatch(Translate(pattern, <<"ANY", "ANY">>, <<"ANY">>, <<"ONE">>), path)
    \/ /\ \E i \in 1..(Len(pattern) - 1) : pattern[i] = "*" /\ pattern[i + 1] = "*"
       /\ ReMatch(Translate(pattern, <<"ONE", "SEG">>, <<"SEG">>, <<"?">>), path)

\* PipelineMatcher._matches_branch_push
MatchesBranchPush(event, config) ==
    LET inList(v, ps) == \E i \in 1..Len(ps) : MatchesPattern(v, ps[i])
        pathInList(f, ps) == \E i \in 1..Len(ps) : MatchesPathPattern(f, ps[i])
        files == event.changed_files
    IN  IF config.branches_ignore # <<>> /\ inList(event.ref, config.branches_ignore)
        THEN FALSE
        ELSE IF config.branches # <<>> /\ ~inList(event.ref, config.branches)
        THEN FALSE
        ELSE IF /\ config.paths_ignore # <<>>
                /\ \A i \in 1..Len(files) : pathInList(files[i], config.paths_ignore)
                /\ files # <<>>
        THEN FALSE
        ELSE IF /\ config.paths # <<>>
                /\ ~\E i \in 1..Len(files) : pathInList(files[i], config.paths)
        THEN FALSE
        ELSE TRUE

\* PipelineMatcher._matches_tag_push
MatchesTagPush(event, config) ==
    LET inList(v, ps) == \E i \in 1..Len(ps) : MatchesPattern(v, ps[i])
    IN  IF event.ref = <<>> THEN FALSE
        ELSE IF config.tags_ignore # <<>> /\ inList(event.ref, config.tags_ignore)
        THEN FALSE
        ELSE IF config.tags # <<>> /\ ~inList(event.ref, config.tags)
        THEN FALSE
        ELSE IF config.tags = <<>> THEN FALSE
        ELSE TRUE

\* PipelineMatcher.matches_push; the push config is absent ("none"), the empty
\* mapping ("empty") or the six lists the parser stores ("filters")
MatchesPush(event, config) ==
    IF config.kind = "none" THEN FALSE
    ELSE IF config.kind = "empty" THEN TRUE
    ELSE IF event.is_tag THEN MatchesTagPush(event, config)
    ELSE MatchesBranchPush(event, config)

\* the on.push configs drawn: absent, empty, or the six lists of
\* _parse_push_trigger, each empty or holding one pattern
PushConfigs ==
    {[kind |-> "none"], [kind |-> "empty"]} \cup
    [kind : {"filters"},
     branches : {<<>>, << <<"m">> >>, << <<"f", "/", "*">> >>},
     branches_ignore : {<<>>, << <<"f", "/", "*", "*">> >>},
     tags : {<<>>, << <<"v", "*">> >>},
     tags_ignore : {<<>>, << <<"v", "2">> >>},
     paths : {<<>>, << <<"s", "/", "*", "*">> >>},
     paths_ignore : {<<>>, << <<"*", "*", "/", "*", ".", "m">> >>}]

\* the push events drawn: a branch (m, f/x) or a tag (v1, v2) with the changed
\* files among r.m at the root, d/a.m and s/c
PushEvents ==
    [is_tag : {FALSE}, ref : {<<"m">>, <<"f", "/", "x">>},
     changed_files : {<<>>, << <<"r", ".", "m">> >>,
                      << <<"r", ".", "m">>, <<"d", "/", "a", ".", "m">> >>,
                      << <<"d", "/", "a", ".", "m">> >>,
                      << <<"s", "/", "c">>, <<"r", ".", "m">> >>}]
    \cup
    [is_tag : {TRUE}, ref : {<<"v", "1">>, <<"v", "2">>},
     changed_files : {<<>>, << <<"r", ".", "m">> >>,
                      << <<"s", "/", "c">>, <<"r", ".", "m">> >>}]

\* ---------------------------------------------------------- matrix expander

\* A combination is a function from keys to values. The variables of a matrix
\* are a sequence of <<key, values>> in the order of their declaration.

\* itertools.product(*values) zipped with the keys: the first key varies slowest
RECURSIVE Product(_)
Product(variables) ==
    IF variables = <<>> THEN << <<>> >>
    ELSE LET key == variables[1][1]
             values == variables[1][2]
             rest == Product(Tail(variables))
             n == Len(rest)
         IN  [i \in 1..(Len(values) * n) |->
                 (key :> values[((i - 1) \div n) + 1]) @@ rest[((i - 1) % n) + 1]]

\* a combination is matched when some key of the pattern agrees with it
MatrixMatchesAnyKey(combination, pattern) ==
    \E key \in DOMAIN pattern :
        key \in DOMAIN combination /\ combination[key] = pattern[key]

\* matrix._matches_pattern
MatrixMatchesPattern(combination, pattern) ==
    \A key \in DOMAIN pattern :
        key \in DOMAIN combination /\ combination[key] = pattern[key]

\* matrix._should_exclude
ShouldExclude(combination, exclude_list) ==
    \E i \in 1..Len(exclude_list) : MatrixMatchesPattern(combination, exclude_list[i])

\* matrix.expand_matrix; strategy.matrix is <<>> when the strategy has no matrix
\* or an empty one
ExpandMatrix(strategy) ==
    IF strategy.matrix = <<>> THEN << <<>> >>
    ELSE LET matrix == strategy.matrix
             keep(c) == ~ShouldExclude(c, matrix.exclude)
         IN  (IF matrix.variables # <<>>
              THEN SelectSeq(Product(matrix.variables), keep)
              ELSE <<>>)
             \o matrix.include

\* matrix.count_matrix_combinations
CountMatrixCombinations(strategy) == Len(ExpandMatrix(strategy))

\* the strategies drawn: no matrix, or up to two variables, exclude patterns
\* and include entries as _parse_strategy stores them
Strategies ==
    LET os == <<"os", <<"ubuntu", "macos">> >>
        node == <<"node", <<"18", "20">> >>
        extra == [os |-> "ubuntu", node |-> "16", experimental |-> "true"]
    IN  {[matrix |-> <<>>]} \cup
        {[matrix |-> m] : m \in
            [variables : {<<>>, <<os>>, <<os, node>>, <<node, os>>,
                          << <<"os", <<>> >>, node>>},
             exclude : {<<>>, <<[os |-> "macos", node |-> "18"]>>,
                        <<[os |-> "macos"]>>,
                        <<[node |-> "18"], [os |-> "ubuntu", node |-> "20"]>>,
                        <<[arch |-> "arm"]>>},
             include : {<<>>, <<extra>>, <<extra, [os |-> "ubuntu", node |-> "18"]>>}]}

\* ------------------------------------------------------- job dependencies

\* The parsed jobs (job_map) are a sequence of [key, needs] in the order of the mapping.

\* has_cycle of _check_circular_dependencies; seen holds visited and rec_stack,
\* and the result holds them as the call leaves them
RECURSIVE HasCycle(_, _, _)
HasCycle(job_map, job_key, seen) ==
    LET needs == IF \E i \in 1..Len(job_map) : job_map[i].key = job_key
                 THEN job_map[CHOOSE i \in 1..Len(job_map) : job_map[i].key = job_key].needs
                 ELSE <<>>
        RECURSIVE Deps(_, _)
        Deps(i, st) ==
            IF i > Len(needs)
            THEN [cycle |-> FALSE, visited |-> st.visited,
                  rec_stack |-> st.rec_stack \ {job_key}]
            ELSE IF needs[i] \notin st.visited
            THEN LET r == HasCycle(job_map, needs[i], st)
                 IN  IF r.cycle THEN r ELSE Deps(i + 1, r)
            ELSE IF needs[i] \in st.rec_stack
            THEN [cycle |-> TRUE, visited |-> st.visited, rec_stack |-> st.rec_stack]
            ELSE Deps(i + 1, st)
    IN  Deps(1, [visited |-> seen.visited \cup {job_key},
                 rec_stack |-> seen.rec_stack \cup {job_key}])

\* the search started from the first job only
CheckCircularFromFirst(job_map) ==
    IF job_map # <<>> /\ HasCycle(job_map, job_map[1].key, [visited |-> {}, rec_stack |-> {}]).cycle
    THEN <<"Circular dependency detected in job graph">>
    ELSE <<>>

\* PipelineParser._check_circular_dependencies: the errors it appends
CheckCircularDependencies(job_map) ==
    LET RECURSIVE Loop(_, _)
        Loop(i, st) ==
            IF i > Len(job_map) THEN <<>>
            ELSE IF job_map[i].key \notin st.visited
            THEN LET r == HasCycle(job_map, job_map[i].key, st)
                 IN  IF r.cycle
                     THEN <<"Circular dependency detected in job graph">>
                     ELSE Loop(i + 1, r)
            ELSE Loop(i + 1, st)
    IN  Loop(1, [visited |-> {}, rec_stack |-> {}])

\* PipelineParser._validate_job_dependencies: the errors it appends
ValidateJobDependencies(job_map) ==
    LET job_keys == {job_map[i].key : i \in 1..Len(job_map)}
        RECURSIVE Missing(_, _)
        Missing(i, n) ==
            IF i > Len(job_map) THEN <<>>
            ELSE IF n > Len(job_map[i].needs) THEN Missing(i + 1, 1)
            ELSE (IF job_map[i].needs[n] \notin job_keys
                  THEN <<"depends on non-existent job">>
                  ELSE <<>>) \o Missing(i, n + 1)
    IN  Missing(1, 1) \o CheckCircularDependencies(job_map)

\* the job mappings drawn: up to three jobs a, b, c, each needing up to two of
\* the jobs (itself included) and, with fewer than three jobs, the undeclared x
JobGraphs ==
    LET lists(keys) == {<<>>} \cup {<<k>> : k \in keys}
                       \cup {<<k, l>> : k, l \in keys}
        job(key, keys) == [key : {key}, needs : lists(keys)]
    IN  {<<>>}
        \cup {<<j>> : j \in job("a", {"a", "x"})}
        \cup (job("a", {"a", "b", "x"}) \X job("b", {"a", "b", "x"}))
        \cup (job("a", {"a", "b", "c"}) \X job("b", {"a", "b", "c"})
                 \X job("c", {"a", "b", "c"}))

\* --------------------------------------------------------- parser: shapes

\* PipelineParser.parse on a document given by the shape of its parts: what
\* the call raises ("none" when it returns) and the errors it returns
Parse(document) ==
    LET returns(errors) == [raised |-> "none", errors |-> errors]
        raises(exception) == [raised |-> exception, errors |-> <<>>]
        \* _parse_push_trigger: config.get on what is not None
        push == IF document.push \in {"list", "string"} THEN "AttributeError"
                ELSE "none"
        \* _parse_schedule_trigger: for item in config; the characters of a
        \* string are no dict and are skipped
        schedule == IF document.schedule = "number" THEN "TypeError" ELSE "none"
        \* _parse_jobs: jobs_config.items(), then _parse_job: config.get
        jobs_items == IF document.jobs = "list" THEN "AttributeError"
                      ELSE IF document.jobs = "mapping" /\ document.job = "scalar"
                      THEN "AttributeError"
                      ELSE "none"
        \* _parse_step: config.get
        step == IF document.jobs = "mapping" /\ document.step = "scalar"
                THEN "AttributeError"
                ELSE "none"
        job_errors ==
            IF document.jobs = "mapping"
            THEN (IF document.runs_on THEN <<>> ELSE <<"must specify 'runs-on'">>)
                 \o (IF document.step = "none"
                     THEN <<"must have at least one step">>
                     ELSE <<>>)
            ELSE <<"Pipeline must have at least one job">>
    IN  IF document.top = "syntax_error" THEN returns(<<"YAML syntax error">>)
        ELSE IF document.top = "scalar"
        THEN returns(<<"Pipeline configuration must be a YAML object">>)
        ELSE IF push # "none" THEN raises(push)
        ELSE IF schedule # "none" THEN raises(schedule)
        ELSE IF jobs_items # "none" THEN raises(jobs_items)
        ELSE IF step # "none" THEN raises(step)
        ELSE returns(job_errors)

\* the documents drawn: ill-formed YAML, a scalar, or a mapping whose push
\* trigger, schedule, jobs, job and step have one of the shapes YAML allows
Documents ==
    [top : {"syntax_error", "scalar", "mapping"},
     push : {"absent", "null", "mapping", "list", "string"},
     schedule : {"absent", "list", "string", "number"},
     jobs : {"absent", "mapping", "list"},
     job : {"mapping", "scalar"},
     runs_on : BOOLEAN,
     step : {"none", "mapping", "scalar"}]

\* ------------------------------------------------------- tenant middleware

\* TenantMiddleware.__call__ up to get_response: the tenant set on the request
\* (has_tenant tells whether the attribute was set at all) and the tenant of
\* the thread context. The request is given by what its lookups find: the
\* tenant of its authenticated user, of its API key, of the slug its host
\* starts with and of the default slug (Null when there is none).
TenantMiddlewareCall(request) ==
    LET \* _get_tenant_from_subdomain
        from_subdomain ==
            IF request.host_parts >= 2
               /\ request.subdomain \notin {"www", "api", "app", "admin"}
            THEN request.slug_tenant
            ELSE Null
        \* _identify_tenant
        identified ==
            IF request.user_tenant # Null THEN request.user_tenant
            ELSE IF request.api_key_tenant # Null THEN request.api_key_tenant
            ELSE from_subdomain
    IN  IF request.deployment_mode = "self_hosted"
        THEN \* _set_default_tenant
             [has_tenant |-> FALSE, tenant |-> Null,
              current_tenant |-> request.default_tenant]
        ELSE [has_tenant |-> TRUE, tenant |-> identified,
              current_tenant |-> identified]

\* the requests drawn
TenantRequests ==
    [deployment_mode : {"saas", "self_hosted"},
     user_tenant : {Null} \cup Tenants,
     api_key_tenant : {Null} \cup Tenants,
     host_parts : {1, 2},
     subdomain : {"www", "acme"},
     slug_tenant : {Null} \cup Tenants,
     default_tenant : {Null, NumTenants}]

\* ---------------------------------------------------------- tenant context

\* a worker thread between two requests: _thread_locals has no tenant; request
\* is the last request taken, blocks the TenantContext objects entered and not
\* left; outcome and served_tenant tell how the request before ended and the
\* tenant it ran under, exited whether the request under way has left a block
IdleThread ==
    [pc |-> "idle", tenant |-> Null, blocks |-> <<>>, outcome |-> "none",
     served_tenant |-> Null, exited |-> FALSE,
     request |-> [deployment_mode |-> "saas", user_tenant |-> Null,
                  api_key_tenant |-> Null, host_parts |-> 1, subdomain |-> "www",
                  slug_tenant |-> Null, default_tenant |-> Null]]

\* TenantMiddleware.__call__ up to get_response: set_current_tenant is called
\* only with a tenant, else _thread_locals is left as it is
MiddlewareEnter(request) ==
    /\ thread.pc = "idle"
    /\ thread' = [thread EXCEPT
          !.pc = "handling",
          !.request = request,
          !.exited = FALSE,
          !.tenant = IF TenantMiddlewareCall(request).current_tenant # Null
                     THEN TenantMiddlewareCall(request).current_tenant
                     ELSE @]
    /\ UNCHANGED <<numberingVars, runnerVars, jobVars, logVars, now, call>>

\* TenantContext(tenant).__enter__ in the handler
TenantContextEnter(tenant) ==
    /\ thread.pc = "handling"
    /\ Len(thread.blocks) < MaxBlocks
    /\ thread' = [thread EXCEPT
          !.blocks = Append(@, [tenant |-> tenant, previous_tenant |-> thread.tenant]),
          !.tenant = tenant]
    /\ UNCHANGED <<numberingVars, runnerVars, jobVars, logVars, now, call>>

\* __exit__ that clears whatever was current before the block
TenantContextExitClears ==
    /\ thread.pc = "handling"
    /\ thread.blocks # <<>>
    /\ thread' = [thread EXCEPT
          !.blocks = SubSeq(@, 1, Len(@) - 1),
          !.exited = TRUE,
          !.tenant = Null]
    /\ UNCHANGED <<numberingVars, runnerVars, jobVars, logVars, now, call>>

\* TenantContext.__exit__ of the innermost block, at its end or when the
\* block raised
TenantContextExit ==
    /\ thread.pc = "handling"
    /\ thread.blocks # <<>>
    /\ thread' = [thread EXCEPT
          !.blocks = SubSeq(@, 1, Len(@) - 1),
          !.exited = TRUE,
          !.tenant = IF thread.blocks[Len(thread.blocks)].previous_tenant # Null
                     THEN thread.blocks[Len(thread.blocks)].previous_tenant
                     ELSE Null]
    /\ UNCHANGED <<numberingVars, runnerVars, jobVars, logVars, now, call>>

\* TenantMiddleware.__call__ from the return of get_response, or from the
\* exception it raised, on: finally clear_current_tenant()
MiddlewareExit(raised) ==
    /\ thread.pc = "handling"
    /\ thread.blocks = <<>>
    /\ thread' = [thread EXCEPT
          !.pc = "idle",
          !.outcome = IF raised THEN "raised" ELSE "returned",
          !.served_tenant = TenantMiddlewareCall(thread.request).current_tenant,
          !.tenant = Null]
    /\ UNCHANGED <<numberingVars, runnerVars, jobVars, logVars, now, call>>

\* ---------------------------------------------------------- cancel command

IdleCancel == [pc |-> "idle", execution |-> Null, cancelled_jobs |-> {}]

ExecutionById(id) == CHOOSE e \in executions : e.id = id

ExecutionIds == {e.id : e \in executions}

\* self.get_object() over Execution.objects.filter(tenant=request.tenant), and
\* the check of the loaded status
CancelGetObject(c, id, tenant) ==
    /\ cancels[c].pc = "idle"
    /\ cancels' = [cancels EXCEPT ![c] =
          IF ~(\E e \in executions : e.id = id /\ e.tenant = tenant)
          THEN [pc |-> "not_found", execution |-> id, cancelled_jobs |-> {}]
          ELSE IF ExecutionById(id).status \notin {"pending", "queued", "running"}
          THEN [pc |-> "bad_request", execution |-> id, cancelled_jobs |-> {}]
          ELSE [pc |-> "checked", execution |-> id, cancelled_jobs |-> {}]]
    /\ UNCHANGED <<executions, requests, configVars, runnerVars, jobVars, logVars, evalVars>>

\* execution.save(update_fields=['status', 'finished_at'])
CancelSaveExecution(c) ==
    /\ cancels[c].pc = "checked"
    /\ executions' = {IF e.id = cancels[c].execution
                      THEN [e EXCEPT !.status = "cancelled", !.finished_at = TRUE]
                      ELSE e : e \in executions}
    /\ cancels' = [cancels EXCEPT ![c].pc = "saved"]
    /\ UNCHANGED <<requests, configVars, runnerVars, jobVars, logVars, evalVars>>

\* the jobs of the execution the UPDATE ... WHERE status IN (...) selects
CancellableJobs(id) ==
    {j \in DOMAIN jobs : jobs[j].execution = id
                  /\ jobs[j].status \in {"pending", "queued", "running"}}

\* execution.jobs.filter(status__in=[...]).update(status=CANCELLED, finished_at=now),
\* and the response
CancelUpdateJobs(c) ==
    /\ cancels[c].pc = "saved"
    /\ jobs' = [j \in DOMAIN jobs |->
                 IF j \in CancellableJobs(cancels[c].execution)
                 THEN [jobs[j] EXCEPT !.status = "cancelled", !.finished_at = TRUE]
                 ELSE jobs[j]]
    /\ cancels' = [cancels EXCEPT ![c].pc = "done",
                                  ![c].cancelled_jobs = CancellableJobs(cancels[c].execution)]
    /\ UNCHANGED <<executions, requests, configVars, runnerVars, steps, artifacts,
                   logVars, evalVars>>

\* --------------------------------------------------------- runner handshake

\* Runner.max_concurrent_jobs default
MaxConcurrentJobs == 2

\* a runner id that names no Runner row
UnknownRunner == NumRunners + 1

RunnerIds == Runners \cup {UnknownRunner}

\* the last runner is shared (no tenant), the others are bound to a tenant
RunnerTenant(r) == IF r = NumRunners THEN Null ELSE ((r - 1) % NumTenants) + 1

\* the raw token shown once at the creation of runner r; the tokens above
\* NumRunners were issued to no runner
RunnerToken(r) == r

\* hashlib.sha256(token.encode()).hexdigest(): injective on the tokens
Sha256(token) == (token * 7 + 3) % 11

RunnerGroup(rid) == <<"runner", rid>>

TenantGroup(tenant) == <<"runners_tenant", tenant>>

RunnerChannel(s) == <<"runner_session", s>>

IdleSession ==
    [state |-> "idle", runner_id |-> Null, token |-> Null, accepted |-> FALSE,
     connected_sent |-> FALSE, handled |-> FALSE, error_sent |-> FALSE,
     raised_on |-> "none"]

\* authenticate without the comparison of the hash: any token passes
AuthenticateTokenPresent(rid, token) ==
    /\ token # Null
    /\ rid \in Runners

\* RunnerConsumer.authenticate: Runner.objects.get(id=runner_id, token_hash=...)
Authenticate(rid, token) ==
    /\ token # Null
    /\ \E r \in Runners : r = rid /\ runners[r].token_hash = Sha256(token)

\* Runner.objects.filter(id=rid).update(status=...)
UpdateRunnerStatus(rid, status) ==
    [r \in Runners |-> IF r = rid THEN [runners[r] EXCEPT !.status = status]
                                  ELSE runners[r]]

\* RunnerConsumer.connect
Connect(s, rid, token) ==
    /\ sessions[s].state = "idle"
    /\ IF Authenticate(rid, token)
       THEN /\ groups' = groups \cup {<<RunnerGroup(rid), RunnerChannel(s)>>}
                   \cup (IF runners[rid].tenant # Null
                         THEN {<<TenantGroup(runners[rid].tenant), RunnerChannel(s)>>}
                         ELSE {})
            /\ runners' = [UpdateRunnerStatus(rid, "online")
                              EXCEPT ![rid].last_heartbeat = now]
            /\ sessions' = [sessions EXCEPT ![s] =
                  [state |-> "open", runner_id |-> rid, token |-> token,
                   accepted |-> TRUE, connected_sent |-> TRUE, handled |-> FALSE,
                   error_sent |-> FALSE, raised_on |-> "none"]]
       ELSE /\ sessions' = [sessions EXCEPT ![s] =
                  [state |-> "rejected", runner_id |-> rid, token |-> token,
                   accepted |-> FALSE, connected_sent |-> FALSE, handled |-> FALSE,
                   error_sent |-> FALSE, raised_on |-> "none"]]
            /\ UNCHANGED <<groups, runners>>
    /\ UNCHANGED <<numberingVars, outbox, jobVars, logVars, evalVars>>

\* the session is between two frames: its receive loop is free
SessionReady(s) == sessions[s].state = "open" /\ ~logWriters[s].pending

\* RunnerConsumer.disconnect: after the close of an accepted session, and after
\* the close() of a rejected handshake
Disconnect(s) ==
    /\ \/ SessionReady(s)
       \/ sessions[s].state = "rejected"
    /\ runners' = UpdateRunnerStatus(sessions[s].runner_id, "offline")
    /\ groups' = {g \in groups : g[2] # RunnerChannel(s)}
    /\ sessions' = [sessions EXCEPT ![s].state = "closed"]
    /\ UNCHANGED <<numberingVars, outbox, jobVars, logVars, evalVars>>

\* Runner.is_available
IsAvailable(r) ==
    runners[r].status = "online" /\ runners[r].current_jobs < MaxConcurrentJobs

\* RunnerViewSet.disable
Disable(r) ==
    /\ runners' = UpdateRunnerStatus(r, "maintenance")
    /\ UNCHANGED <<numberingVars, sessions, groups, outbox, jobVars, logVars, evalVars>>

\* RunnerViewSet.enable
Enable(r) ==
    /\ runners' = IF runners[r].status = "maintenance"
                  THEN UpdateRunnerStatus(r, "offline")
                  ELSE runners
    /\ UNCHANGED <<numberingVars, sessions, groups, outbox, jobVars, logVars, evalVars>>

\* RUNNER_OFFLINE_THRESHOLD, the default of check_offline
OfflineThreshold == 90

\* Runner.check_offline
CheckOffline(r) ==
    IF runners[r].last_heartbeat = Null
    THEN TRUE
    ELSE now - runners[r].last_heartbeat > OfflineThreshold

\* time passes
Tick ==
    /\ now < MaxNow
    /\ now' = now + TickSeconds
    /\ UNCHANGED <<numberingVars, runnerVars, jobVars, logVars, call, thread>>

\* ------------------------------------------------------------ log fan-out

JobLogGroup(job_id) == <<"logs_job", job_id>>

ExecutionLogGroup(execution_id) == <<"logs_execution", execution_id>>

SubscriberChannel(u) == <<"log_subscriber", u>>

\* group_send whose frames are handled at once, also by a consumer that is
\* still in connect
GroupSendUnqueued(subs, group, frame) ==
    [u \in Subscribers |->
        IF <<group, SubscriberChannel(u)>> \in groups
        THEN [subs[u] EXCEPT !.received = @ \cup {frame}]
        ELSE subs[u]]

\* channel_layer.group_send(group, frame): every LogConsumer of the group sends
\* the frame to its client (log_message / status_update); a consumer handles
\* one message at a time, so the frame waits while connect is still running
GroupSend(subs, group, frame) ==
    [u \in Subscribers |->
        IF <<group, SubscriberChannel(u)>> \in groups
        THEN IF subs[u].state = "joined"
             THEN [subs[u] EXCEPT !.mailbox = @ \cup {frame}]
             ELSE [subs[u] EXCEPT !.received = @ \cup {frame}]
        ELSE subs[u]]

\* RunnerConsumer.get_execution_id
GetExecutionId(job_id) == IF job_id \in DOMAIN jobs THEN jobs[job_id].execution ELSE Null

\* ------------------------------------------------- runner session: inbound

RunnerOf(s) == sessions[s].runner_id

\* the frame was handled and the session goes on
Handled(s) == [sessions EXCEPT ![s].handled = TRUE]

\* receive() answered the frame with {'type': 'error', ...}
ErrorReply(s) == [sessions EXCEPT ![s].handled = TRUE, ![s].error_sent = TRUE]

\* an exception that leaves receive() ends the consumer: the connection is
\* closed by the server and disconnect() does not run
Raised(s, kind) ==
    [sessions EXCEPT ![s].handled = TRUE, ![s].state = "crashed", ![s].raised_on = kind]

\* receive(): json.loads raises JSONDecodeError
ReceiveMalformedJson(s) ==
    /\ SessionReady(s)
    /\ sessions' = ErrorReply(s)
    /\ UNCHANGED <<numberingVars, runners, groups, outbox, jobVars, logVars, evalVars>>

\* receive(): the text is JSON but no object (a list, a string, a number, null),
\* so data.get raises AttributeError, which receive() does not catch
ReceiveNonObject(s) ==
    /\ SessionReady(s)
    /\ sessions' = Raised(s, "non_object")
    /\ UNCHANGED <<numberingVars, runners, groups, outbox, jobVars, logVars, evalVars>>

\* receive(): no handler for the type
ReceiveUnknownType(s) ==
    /\ SessionReady(s)
    /\ sessions' = ErrorReply(s)
    /\ UNCHANGED <<numberingVars, runners, groups, outbox, jobVars, logVars, evalVars>>

\* handle_heartbeat / update_runner_heartbeat
ReceiveHeartbeat(s, current_jobs) ==
    /\ SessionReady(s)
    /\ runners' = [r \in Runners |->
                    IF r = RunnerOf(s)
                    THEN [runners[r] EXCEPT !.last_heartbeat = now,
                                            !.current_jobs = current_jobs]
                    ELSE runners[r]]
    /\ sessions' = Handled(s)
    /\ UNCHANGED <<numberingVars, groups, outbox, jobVars, logVars, evalVars>>

\* update_entity_status, entity_type == 'job'
UpdateJobStatus(job_id, status) ==
    [j \in DOMAIN jobs |->
        IF j # job_id THEN jobs[j]
        ELSE IF status = "running"
        THEN [jobs[j] EXCEPT !.status = status]
        ELSE IF status \in {"success", "failed", "cancelled", "timeout"}
        THEN [jobs[j] EXCEPT !.status = status, !.finished_at = TRUE]
        ELSE [jobs[j] EXCEPT !.status = status]]

\* update_entity_status, entity_type == 'step'
UpdateStepStatus(step_id, status) ==
    [x \in DOMAIN steps |->
        IF x # step_id THEN steps[x]
        ELSE IF status = "running"
        THEN [steps[x] EXCEPT !.status = status]
        ELSE IF status \in {"success", "failed", "cancelled", "timeout", "skipped"}
        THEN [steps[x] EXCEPT !.status = status, !.finished_at = TRUE]
        ELSE [steps[x] EXCEPT !.status = status]]

\* the status_update message of the channel layer: entity_type 'job',
\* entity_id and status
StatusFrame(job_id, status) ==
    [phase |-> "live", type |-> "status_update", job_id |-> job_id, step_id |-> Null,
     content |-> Null, status |-> status]

\* handle_status_update for a job: the update and the broadcast to the
\* execution's log group
ReceiveJobStatusUpdate(s, job_id, status) ==
    /\ SessionReady(s)
    /\ jobs' = UpdateJobStatus(job_id, status)
    /\ subscribers' =
         IF GetExecutionId(job_id) # Null
         THEN GroupSend(subscribers, ExecutionLogGroup(GetExecutionId(job_id)),
                        StatusFrame(job_id, status))
         ELSE subscribers
    /\ sessions' = Handled(s)
    /\ UNCHANGED <<numberingVars, runners, groups, outbox, steps, artifacts,
                   logChunks, logWriters, evalVars>>

\* handle_status_update for a step: the update, no broadcast
ReceiveStepStatusUpdate(s, step_id, status) ==
    /\ SessionReady(s)
    /\ steps' = UpdateStepStatus(step_id, status)
    /\ sessions' = Handled(s)
    /\ UNCHANGED <<numberingVars, runners, groups, outbox, jobs, artifacts,
                   logVars, evalVars>>

\* complete_job
CompleteJob(job_id, status) ==
    [j \in DOMAIN jobs |->
        IF j = job_id THEN [jobs[j] EXCEPT !.status = status, !.finished_at = TRUE]
                      ELSE jobs[j]]

\* decrement_runner_jobs: current_jobs = F('current_jobs') - 1 on the session's
\* own runner
DecrementRunnerJobs(rid) ==
    [r \in Runners |->
        IF r = rid THEN [runners[r] EXCEPT !.current_jobs = @ - 1] ELSE runners[r]]

\* handle_job_complete: complete_job, then decrement_runner_jobs; the column is
\* a PositiveIntegerField, whose CHECK (current_jobs >= 0) refuses the UPDATE
\* with an IntegrityError
ReceiveJobComplete(s, job_id, status) ==
    /\ SessionReady(s)
    /\ jobs' = CompleteJob(job_id, status)
    /\ IF DecrementRunnerJobs(RunnerOf(s))[RunnerOf(s)].current_jobs < 0
       THEN /\ sessions' = Raised(s, "job_complete")
            /\ UNCHANGED runners
       ELSE /\ runners' = DecrementRunnerJobs(RunnerOf(s))
            /\ sessions' = Handled(s)
    /\ UNCHANGED <<numberingVars, groups, outbox, steps, artifacts, logVars, evalVars>>

\* handle_artifact_ready / create_artifact: an unknown job is passed over; a
\* frame without artifact_name, artifact_path, size_bytes or checksum inserts
\* NULL into a NOT NULL column, an IntegrityError
ReceiveArtifactReady(s, job_id, complete) ==
    /\ SessionReady(s)
    /\ IF job_id \notin DOMAIN jobs
       THEN /\ sessions' = Handled(s)
            /\ UNCHANGED artifacts
       ELSE IF complete
       THEN /\ artifacts' = artifacts \cup
                  {[job |-> job_id, execution |-> jobs[job_id].execution,
                    tenant |-> ExecutionById(jobs[job_id].execution).tenant]}
            /\ sessions' = Handled(s)
       ELSE /\ sessions' = Raised(s, "artifact_missing_fields")
            /\ UNCHANGED artifacts
    /\ UNCHANGED <<numberingVars, runners, groups, outbox, jobs, steps, logVars, evalVars>>

\* ----------------------------------------------------------- log storage

Contents == 1..NumContents

StepChunks(step_id) == {c \in logChunks : c.step = step_id}

\* store_log: step.log_chunks.order_by('-chunk_number').first(), and
\* (last_chunk.chunk_number + 1) if last_chunk else 0
NextChunk(step_id) ==
    IF StepChunks(step_id) = {} THEN 0
    ELSE SetMax({c.chunk_number : c \in StepChunks(step_id)}) + 1

\* the log_message of the channel layer; it carries no status
LogFrame(job_id, step_id, content) ==
    [phase |-> "live", type |-> "log", job_id |-> job_id, step_id |-> step_id,
     content |-> content, status |-> ""]

\* handle_log after store_log: group_send to the job's log group and, when the
\* job exists, to its execution's log group
BroadcastLog(job_id, step_id, content) ==
    LET toJob == GroupSend(subscribers, JobLogGroup(job_id),
                           LogFrame(job_id, step_id, content))
    IN IF GetExecutionId(job_id) # Null
       THEN GroupSend(toJob, ExecutionLogGroup(GetExecutionId(job_id)),
                      LogFrame(job_id, step_id, content))
       ELSE toJob

NoWriter ==
    [pending |-> FALSE, job_id |-> Null, step_id |-> Null, content |-> Null,
     chunk_number |-> 0]

\* handle_log for a step_id that names no Step: store_log passes over
\* Step.DoesNotExist and the frame is broadcast all the same
ReceiveLogUnknownStep(s, job_id, content) ==
    /\ SessionReady(s)
    /\ subscribers' = BroadcastLog(job_id, Null, content)
    /\ sessions' = Handled(s)
    /\ UNCHANGED <<numberingVars, runners, groups, outbox, jobVars, logChunks,
                   logWriters, evalVars>>

\* handle_log / store_log up to the SELECT of the step's last chunk
StoreLogSelectLast(s, job_id, step_id, content) ==
    /\ SessionReady(s)
    /\ step_id \in DOMAIN steps
    /\ Cardinality(StepChunks(step_id)) < MaxChunks
    /\ logWriters' = [logWriters EXCEPT ![s] =
          [pending |-> TRUE, job_id |-> job_id, step_id |-> step_id,
           content |-> content, chunk_number |-> NextChunk(step_id)]]
    /\ UNCHANGED <<numberingVars, runnerVars, jobVars, logChunks, subscribers, evalVars>>

\* unique_together = ['step', 'chunk_number']
ChunkUniqueViolation(step_id, n) ==
    \E c \in logChunks : c.step = step_id /\ c.chunk_number = n

\* store_log's LogChunk.objects.create, which the unique constraint refuses with
\* an IntegrityError that neither store_log nor receive() catches; then the
\* broadcast
StoreLogInsert(s) ==
    LET w == logWriters[s] IN
    /\ sessions[s].state = "open"
    /\ w.pending
    /\ logWriters' = [logWriters EXCEPT ![s] = NoWriter]
    /\ IF ChunkUniqueViolation(w.step_id, w.chunk_number)
       THEN /\ sessions' = Raised(s, "log_conflict")
            /\ UNCHANGED <<logChunks, subscribers>>
       ELSE /\ logChunks' = logChunks \cup
                  {[id |-> Cardinality(logChunks) + 1, step |-> w.step_id,
                    chunk_number |-> w.chunk_number, content |-> w.content]}
            /\ subscribers' = BroadcastLog(w.job_id, w.step_id, w.content)
            /\ sessions' = Handled(s)
    /\ UNCHANGED <<numberingVars, runners, groups, outbox, jobVars, evalVars>>

\* ---------------------------------------------------------- log subscribers

\* a URL execution id that names no Execution row
UnknownExecution == NumExecutions + NumRequests + 1

\* received: the frames sent to the client; before_marker: those of them sent
\* before history_complete; mailbox: the frames of the channel layer that wait
\* for the consumer to finish the handler it runs
IdleSubscriber ==
    [state |-> "idle", tenant |-> Null, execution_id |-> Null, job_id |-> Null,
     received |-> {}, before_marker |-> {}, mailbox |-> {}]

\* LogConsumer.has_permission; every authenticated user has the tenant
\* attribute, which is None for a user bound to no tenant
HasPermission(authenticated, tenant, execution_id) ==
    /\ authenticated
    /\ execution_id \in ExecutionIds
    /\ ExecutionById(execution_id).tenant = tenant

\* LogConsumer.connect: the group name
GroupName(execution_id, job_id) ==
    IF job_id # Null THEN JobLogGroup(job_id) ELSE ExecutionLogGroup(execution_id)

\* LogConsumer.connect up to the connected frame
SubscriberConnect(u, authenticated, tenant, execution_id, job_id) ==
    /\ subscribers[u].state = "idle"
    /\ IF HasPermission(authenticated, tenant, execution_id)
       THEN /\ groups' = groups \cup
                  {<<GroupName(execution_id, job_id), SubscriberChannel(u)>>}
            /\ subscribers' = [subscribers EXCEPT ![u] =
                  [state |-> "joined", tenant |-> tenant, execution_id |-> execution_id,
                   job_id |-> job_id, received |-> {}, before_marker |-> {},
                   mailbox |-> {}]]
       ELSE /\ subscribers' = [subscribers EXCEPT ![u].state = "rejected"]
            /\ UNCHANGED groups
    /\ UNCHANGED <<numberingVars, runners, sessions, outbox, jobVars,
                   logChunks, logWriters, evalVars>>

\* LogConsumer.get_existing_logs: the steps whose chunks are read
BacklogSteps(execution_id, job_id) ==
    IF job_id # Null
    THEN {x \in DOMAIN steps : steps[x].job = job_id}
    ELSE {x \in DOMAIN steps :
            steps[x].job \in {j \in DOMAIN jobs : jobs[j].execution = execution_id}}

\* LogConsumer.get_existing_logs: the frames; the [:1000] slice keeps them all
\* while a subscription matches at most NumSteps * MaxChunks chunks
ExistingLogs(execution_id, job_id) ==
    {[phase |-> "backlog", type |-> "log", job_id |-> steps[c.step].job,
      step_id |-> c.step, content |-> c.content, status |-> ""] :
        c \in {d \in logChunks : d.step \in BacklogSteps(execution_id, job_id)}}

\* LogConsumer.send_history
SendHistory(u) ==
    /\ subscribers[u].state = "joined"
    /\ subscribers' = [subscribers EXCEPT
          ![u].state = "open",
          ![u].received = @ \cup ExistingLogs(subscribers[u].execution_id,
                                              subscribers[u].job_id),
          ![u].before_marker = subscribers[u].received
                                  \cup ExistingLogs(subscribers[u].execution_id,
                                                    subscribers[u].job_id)]
    /\ UNCHANGED <<numberingVars, runnerVars, jobVars, logChunks, logWriters, evalVars>>

\* LogConsumer.log_message and status_update: the frames that waited for
\* connect to return are handled
SubscriberDispatch(u) ==
    /\ subscribers[u].state = "open"
    /\ subscribers[u].mailbox # {}
    /\ subscribers' = [subscribers EXCEPT
          ![u].received = @ \cup subscribers[u].mailbox,
          ![u].mailbox = {}]
    /\ UNCHANGED <<numberingVars, runnerVars, jobVars, logChunks, logWriters, evalVars>>

\* LogConsumer.disconnect
SubscriberDisconnect(u) ==
    /\ subscribers[u].state \in {"open", "rejected"}
    /\ groups' = {g \in groups : g[2] # SubscriberChannel(u)}
    /\ subscribers' = [subscribers EXCEPT ![u].state = "closed"]
    /\ UNCHANGED <<numberingVars, runners, sessions, outbox, jobVars,
                   logChunks, logWriters, evalVars>>

\* ------------------------------------------------------ job dependencies met

\* Job.check_dependencies_satisfied on a job with the given needs in the given
\* execution; rows is the Job table
CheckDependenciesSatisfied(job) ==
    IF job.needs = {} THEN TRUE
    ELSE LET dependent_jobs ==
                 {row \in job.rows : row.execution = job.execution
                                     /\ row.job_key \in job.needs}
         IN  \A row \in dependent_jobs : row.status = "success"

\* the job asked about and the Job table: up to two rows, of its execution or
\* of another one; two rows with one key are matrix instances
DependencyInputs ==
    LET Rows(ids, execs) ==
            [id : ids, execution : execs, job_key : {"build", "lint"},
             status : {"success", "failed", "running"}]
        DependencyRows == Rows({1}, {1, 2}) \cup Rows({2}, {1})
    IN  [needs : SUBSET {"build", "lint"}, execution : {1},
         rows : {rs \in SUBSET DependencyRows : \A a, b \in rs : a.id = b.id => a = b}]

\* ------------------------------------------------------------ log backlog

\* order_by('step__job_id', 'step__order', 'chunk_number')
BacklogBefore(a, b) ==
    \/ a.job_id < b.job_id
    \/ a.job_id = b.job_id /\ a.step_order < b.step_order
    \/ a.job_id = b.job_id /\ a.step_order = b.step_order
       /\ a.chunk_number < b.chunk_number

\* LogConsumer.get_existing_logs on the LogChunk rows the subscription
\* matches: the rows in order, cut by the slice [:1000], here [:BacklogLimit]
GetExistingLogs(rows) ==
    LET RECURSIVE Listed(_)
        Listed(S) ==
            IF S = {} THEN <<>>
            ELSE LET first == CHOOSE a \in S : \A b \in S \ {a} : BacklogBefore(a, b)
                 IN  <<first>> \o Listed(S \ {first})
        logs == Listed(rows)
    IN  IF Len(logs) <= BacklogLimit THEN logs ELSE SubSeq(logs, 1, BacklogLimit)

\* the chunks stored for the steps of a subscription, by the step each store_log
\* call wrote to: id is the order of insertion, chunk_number the step's next
StoredBacklogs ==
    LET BacklogSlots == {<<1, 0>>, <<1, 1>>, <<2, 0>>}
        Writes == UNION {[1..n -> BacklogSlots] : n \in 0..MaxBacklog}
        Row(w, i) ==
            [id |-> i, job_id |-> w[i][1], step_order |-> w[i][2],
             chunk_number |-> Cardinality({k \in 1..(i - 1) : w[k] = w[i]})]
    IN  {{Row(w, i) : i \in DOMAIN w} : w \in Writes}

\* ----------------------------------------------------------------- API keys

\* APIKey.is_valid, with is_expired, at the given time
IsValid(key, time) ==
    LET is_expired == IF key.expires_at = Null THEN FALSE ELSE time > key.expires_at
    IN  key.is_active /\ ~is_expired

\* TenantMiddleware._get_tenant_from_api_key: the row of the hash with
\* is_active=True; lookup.found tells whether a row has the hash of the header
GetTenantFromApiKey(lookup) ==
    IF lookup.found /\ lookup.key.is_active THEN lookup.key.tenant ELSE Null

\* APIKeyAuthentication._validate_api_key and the tenant authenticate sets on
\* the request; the header has the mci_ prefix or not
ValidateApiKey(lookup) ==
    IF ~lookup.mci_prefix THEN Null
    ELSE IF ~lookup.found THEN Null
    ELSE IF ~IsValid(lookup.key, lookup.time) THEN Null
    ELSE lookup.key.tenant

\* the X-API-Key headers drawn, the APIKey row they name and the time of the
\* request; the keys stored are those of generate_key, with the prefix
ApiKeyLookups ==
    {l \in [mci_prefix : BOOLEAN, found : BOOLEAN, time : 1..3,
            key : [is_active : BOOLEAN, expires_at : {Null, 1, 2}, tenant : Tenants]] :
        l.found => l.mci_prefix}

\* ------------------------------------------------------ function evaluation

\* the calls of fn not yet evaluated, one for each input
Calls(fn, inputs) ==
    {[fn |-> fn, input |-> i, done |-> FALSE, result |-> Null] : i \in inputs}

\* the call under way returns
Return(fn, result) ==
    /\ call.fn = fn
    /\ ~call.done
    /\ call' = [call EXCEPT !.done = TRUE, !.result = result]
    /\ UNCHANGED <<numberingVars, runnerVars, jobVars, logVars, now, thread>>

\* _process_event: matcher.matches_push(parsed_event)
EvalMatchesPush ==
    Return("matches_push", MatchesPush(call.input[1], call.input[2]))

\* expand_matrix(strategy), consumed to its end as count_matrix_combinations does
EvalExpandMatrix ==
    Return("expand_matrix", ExpandMatrix(call.input))

\* _parse_jobs: self._validate_job_dependencies(jobs)
EvalValidateJobDependencies ==
    Return("validate_job_dependencies", ValidateJobDependencies(call.input))

\* update_config: parsed, errors = parse_pipeline_yaml(yaml_content)
EvalParse ==
    Return("parse", Parse(call.input))

\* the middleware runs before the view
EvalTenantMiddleware ==
    Return("tenant_middleware", TenantMiddlewareCall(call.input))

\* the scheduler's readiness test: job.check_dependencies_satisfied()
EvalCheckDependenciesSatisfied ==
    Return("check_dependencies_satisfied", CheckDependenciesSatisfied(call.input))

\* send_history: logs = await self.get_existing_logs()
EvalGetExistingLogs ==
    Return("get_existing_logs", GetExistingLogs(call.input))

\* a request with an X-API-Key header: the tenant the middleware resolves from
\* the key and the tenant APIKeyAuthentication gives the request
EvalApiKey ==
    Return("api_key", [middleware |-> GetTenantFromApiKey(call.input),
                       authentication |-> ValidateApiKey(call.input)])

\* ------------------------------------------------------------ initial state

JobExecution(j) == ((j - 1) % NumExecutions) + 1

StepJob(x) == ((x - 1) % NumJobs) + 1

\* an execution of pipeline e, planned before the first step
PlannedExecution(e, status) ==
    [id |-> e, tenant |-> PipelineTenant(e), pipeline |-> e, number |-> 1,
     trigger_type |-> "push", status |-> status, finished_at |-> FALSE,
     pipeline_config |-> e, delivery_id |-> Null, retry_of |-> Null,
     concurrency_group |-> ""]

\* every pipeline has a valid config, version 1
StoredConfigs ==
    {[id |-> p, pipeline |-> p, version |-> 1, config_yaml |-> "plain",
      is_valid |-> TRUE] : p \in Pipelines}

\* Runner.matches / scheduler eligibility: the runner is shared or of the job's tenant
Eligible(r, j) ==
    RunnerTenant(r) = Null \/ RunnerTenant(r) = PipelineTenant(JobExecution(j))

AssignedTo(table, r) == {j \in DOMAIN table : table[j].runner = r}

\* the job table the scheduler leaves behind: job j is queued on runner j when
\* there is such a runner and it is eligible, the other jobs are pending and
\* unassigned
DispatchedJobs ==
    [j \in Jobs |->
        IF j \in Runners /\ Eligible(j, j)
        THEN [execution |-> JobExecution(j), status |-> "queued", runner |-> j,
              finished_at |-> FALSE]
        ELSE [execution |-> JobExecution(j), status |-> "pending", runner |-> Null,
              finished_at |-> FALSE]]

\* no function under evaluation
NoCall == [fn |-> "none", input |-> Null, done |-> FALSE, result |-> Null]

InitRunners(table) ==
    [r \in Runners |->
        [tenant |-> RunnerTenant(r), token_hash |-> Sha256(RunnerToken(r)),
         status |-> "offline", last_heartbeat |-> Null,
         current_jobs |-> Cardinality(AssignedTo(table, r))]]

InitSteps ==
    [x \in Steps |-> [job |-> StepJob(x), status |-> "pending", finished_at |-> FALSE]]

\* the Pipeline rows: every pipeline but the last has a webhook secret of its
\* own
StoredPipelines ==
    [p \in Pipelines |->
        [last_execution_at |-> 0,
         webhook_secret |-> IF p = NumPipelines THEN Null ELSE p]]

\* the Pipeline rows when every pipeline has a webhook secret of its own
PipelinesWithSecrets ==
    [p \in Pipelines |-> [last_execution_at |-> 0, webhook_secret |-> p]]

InitIdle ==
    /\ requests = [r \in Requests |-> IdleRequest]
    /\ cancels = [c \in Cancels |-> IdleCancel]
    /\ sessions = [s \in Sessions |-> IdleSession]
    /\ groups = {}
    /\ outbox = {}
    /\ artifacts = {}
    /\ logChunks = {}
    /\ logWriters = [s \in Sessions |-> NoWriter]
    /\ subscribers = [u \in Subscribers |-> IdleSubscriber]
    /\ updates = [u \in Updates |-> IdleUpdate]
    /\ now = 1
    /\ thread = IdleThread

\* executions planned and jobs dispatched, no session open yet
Init ==
    /\ InitIdle
    /\ pipelines = StoredPipelines
    /\ jobs = DispatchedJobs
    /\ executions = {PlannedExecution(e,
                        IF \E j \in Jobs : jobs[j].execution = e /\ jobs[j].runner # Null
                        THEN "running" ELSE "pending") : e \in 1..NumExecutions}
    /\ runners = InitRunners(jobs)
    /\ steps = InitSteps
    /\ configs = StoredConfigs
    /\ call = NoCall

\* pipelines without executions
InitNumbering ==
    /\ InitIdle
    /\ pipelines = StoredPipelines
    /\ executions = {}
    /\ jobs = <<>>
    /\ steps = <<>>
    /\ runners = InitRunners(<<>>)
    /\ configs = StoredConfigs
    /\ call = NoCall

\* pipelines just created, without config and without executions
InitConfigs ==
    /\ InitIdle
    /\ pipelines = StoredPipelines
    /\ executions = {}
    /\ jobs = <<>>
    /\ steps = <<>>
    /\ runners = InitRunners(<<>>)
    /\ configs = {}
    /\ call = NoCall

\* pipelines without executions, each with a webhook secret of its own
InitSecrets ==
    /\ InitIdle
    /\ pipelines = PipelinesWithSecrets
    /\ executions = {}
    /\ jobs = <<>>
    /\ steps = <<>>
    /\ runners = InitRunners(<<>>)
    /\ configs = StoredConfigs
    /\ call = NoCall

\* no table row, one function call to evaluate
InitFunctions ==
    /\ InitIdle
    /\ pipelines = StoredPipelines
    /\ executions = {}
    /\ jobs = <<>>
    /\ steps = <<>>
    /\ runners = InitRunners(<<>>)
    /\ configs = {}
    /\ call \in Calls("matches_push", PushEvents \X PushConfigs)
               \cup Calls("expand_matrix", Strategies)
               \cup Calls("validate_job_dependencies", JobGraphs)
               \cup Calls("parse", Documents)
               \cup Calls("tenant_middleware", TenantRequests)
               \cup Calls("check_dependencies_satisfied", DependencyInputs)
               \cup Calls("get_existing_logs", StoredBacklogs)
               \cup Calls("api_key", ApiKeyLookups)

\* ------------------------------------------------------------ specifications

CancelCommand ==
    \/ \E c \in Cancels, id \in ExecutionIds \cup {UnknownExecution}, tenant \in Tenants :
          CancelGetObject(c, id, tenant)
    \/ \E c \in Cancels : CancelSaveExecution(c)
    \/ \E c \in Cancels : CancelUpdateJobs(c)

Handshake ==
    \/ \E s \in Sessions, rid \in RunnerIds, token \in Tokens : Connect(s, rid, token)
    \/ \E s \in Sessions : Disconnect(s)

\* the handshakes of the runners that hold their token
RunnerConnects ==
    \E s \in Sessions, r \in Runners : Connect(s, r, RunnerToken(r))

RunnerDisconnects == \E s \in Sessions : Disconnect(s)

\* what a runner reports of a job or a step it runs
ReportedStatus == {"running", "success", "failed"}

StatusFrames ==
    \/ \E s \in Sessions, j \in Jobs, status \in ReportedStatus :
          ReceiveJobStatusUpdate(s, j, status)
    \/ \E s \in Sessions, x \in Steps, status \in ReportedStatus :
          ReceiveStepStatusUpdate(s, x, status)
    \/ \E s \in Sessions, j \in Jobs, status \in ReportedStatus \ {"running"} :
          ReceiveJobComplete(s, j, status)

\* each runner opens its own session
OwnSessionConnects ==
    \E r \in Runners \cap Sessions : Connect(r, r, RunnerToken(r))

\* runner sessions reporting on jobs while executions are cancelled
Next == OwnSessionConnects \/ StatusFrames \/ CancelCommand

Spec == Init /\ [][Next]_vars

\* runner sessions: handshakes with any token, the frames that touch no job
NextSession ==
    \/ Handshake
    \/ \E s \in Sessions : ReceiveMalformedJson(s)
    \/ \E s \in Sessions : ReceiveNonObject(s)
    \/ \E s \in Sessions : ReceiveUnknownType(s)
    \/ \E s \in Sessions, n \in 0..MaxConcurrentJobs : ReceiveHeartbeat(s, n)
    \/ \E s \in Sessions, j \in Jobs \cup {Null}, complete \in BOOLEAN :
          ReceiveArtifactReady(s, j, complete)

SpecSession == Init /\ [][NextSession]_vars

\* the handshake alone, with the frames that touch no table
NextHandshake ==
    \/ Handshake
    \/ \E s \in Sessions : ReceiveMalformedJson(s)
    \/ \E s \in Sessions : ReceiveNonObject(s)
    \/ \E s \in Sessions : ReceiveUnknownType(s)

SpecHandshake == Init /\ [][NextHandshake]_vars

\* the runners' job counters: heartbeats, completions, disconnects
NextCounters ==
    \/ RunnerConnects
    \/ RunnerDisconnects
    \/ \E s \in Sessions, n \in 0..MaxConcurrentJobs : ReceiveHeartbeat(s, n)
    \/ \E s \in Sessions, j \in Jobs, status \in ReportedStatus \ {"running"} :
          ReceiveJobComplete(s, j, status)

SpecCounters == Init /\ [][NextCounters]_vars

\* the header GitHub computes with the secret of pipeline p
SignedFor(p) ==
    IF WebhookSecret(p) = Null THEN <<>>
    ELSE <<"sha256=", ComputeSignature(WebhookSecret(p))>>

\* signed deliveries for one pipeline
SignedDeliveries(rs) ==
    \E r \in rs, p \in Pipelines, kind \in {"push", "pull_request"}, deleted \in BOOLEAN :
        WebhookPost(r, kind, <<p>>, SignedFor(p), deleted)

NextNumbering ==
    \/ SignedDeliveries(Requests)
    \/ \E r \in Requests : PushReadLastNumber(r, TRUE)
    \/ \E r \in Requests : PullRequestReadLastNumber(r, TRUE)
    \/ \E r \in Requests, p \in Pipelines : TriggerCount(r, p)
    \/ \E r \in Requests, e \in executions : RetryCount(r, e)
    \/ \E r \in Requests : CreateExecution(r)
    \/ CancelCommand

SpecNumbering == InitNumbering /\ [][NextNumbering]_vars

Deliveries == 1..NumDeliveries

\* the storing of configs alone: pipeline creation and update_config
NextVersions ==
    \/ \E u \in Updates, p \in Pipelines, yaml \in {"plain", ""} :
          PipelineCreate(u, p, yaml)
    \/ \E u \in Updates, p \in Pipelines, yaml \in {"invalid", ""} :
          UpdateConfigReadVersion(u, p, yaml)
    \/ \E u \in Updates : StoreConfig(u)

SpecVersions == InitConfigs /\ [][NextVersions]_vars

\* the update_config requests that run while pipelines are triggered
Edits == 1..NumEdits

\* configs stored while pipelines are triggered by pushes and by hand,
\* cancelled and retried
NextConfigs ==
    \/ \E u \in Edits, p \in Pipelines, yaml \in Yamls :
          UpdateConfigReadVersion(u, p, yaml)
    \/ \E u \in Edits : StoreConfig(u)
    \/ \E r \in Deliveries, p \in Pipelines :
          WebhookPost(r, "push", <<p>>, SignedFor(p), FALSE)
    \/ \E r \in Deliveries : PushReadLastNumber(r, TRUE)
    \/ \E r \in Deliveries, p \in Pipelines : TriggerCount(r, p)
    \/ \E r \in Deliveries, e \in executions : RetryCount(r, e)
    \/ \E r \in Deliveries : CreateExecution(r)
    \/ CancelCommand

SpecConfigs == InitConfigs /\ [][NextConfigs]_vars

\* webhook deliveries with any signature for any set of candidate pipelines
NextWebhook ==
    \/ \E r \in Deliveries, kind \in {"push", "pull_request"},
          candidates \in CandidateLists, signature \in Signatures, deleted \in BOOLEAN :
          WebhookPost(r, kind, candidates, signature, deleted)
    \/ \E r \in Deliveries, matches \in BOOLEAN : PushReadLastNumber(r, matches)
    \/ \E r \in Deliveries, matches \in BOOLEAN : PullRequestReadLastNumber(r, matches)
    \/ \E r \in Deliveries : CreateExecution(r)

SpecWebhook == InitNumbering /\ [][NextWebhook]_vars

\* push deliveries with any signature, every candidate matching
NextSignature ==
    \/ \E r \in Deliveries, candidates \in CandidateLists, signature \in Signatures :
          WebhookPost(r, "push", candidates, signature, FALSE)
    \/ \E r \in Deliveries : PushReadLastNumber(r, TRUE)
    \/ \E r \in Deliveries : CreateExecution(r)

SpecSignature == InitNumbering /\ [][NextSignature]_vars

\* the same deliveries when each candidate has a secret of its own
SpecSecrets == InitSecrets /\ [][NextSignature]_vars

\* manual triggers and retries while past executions are pruned
NextPrune ==
    \/ \E r \in Requests, p \in Pipelines : TriggerCount(r, p)
    \/ \E r \in Requests, e \in executions : RetryCount(r, e)
    \/ \E r \in Requests : CreateExecution(r)
    \/ CancelCommand
    \/ \E e \in executions : PruneExecution(e)

SpecPrune == InitNumbering /\ [][NextPrune]_vars

LogFrames ==
    \/ \E s \in Sessions, j \in Jobs, content \in Contents :
          ReceiveLogUnknownStep(s, j, content)
    \/ \E s \in Sessions, j \in Jobs, x \in Steps, content \in Contents :
          StoreLogSelectLast(s, j, x, content)
    \/ \E s \in Sessions : StoreLogInsert(s)

LogSubscribers ==
    \/ \E u \in Subscribers, authenticated \in BOOLEAN, tenant \in Tenants \cup {Null},
          id \in ExecutionIds \cup {UnknownExecution}, j \in Jobs \cup {Null} :
          SubscriberConnect(u, authenticated, tenant, id, j)
    \/ \E u \in Subscribers : SendHistory(u)
    \/ \E u \in Subscribers : SubscriberDispatch(u)
    \/ \E u \in Subscribers : SubscriberDisconnect(u)

NextLogs == OwnSessionConnects \/ LogFrames \/ LogSubscribers

SpecLogs == Init /\ [][NextLogs]_vars

\* the status a frame carries is any string: a declared status or another one
FrameStatus == {"pending", "running", "success", "skipped", "paused"}

\* the jobs that were dispatched to a runner
RunnerJobs == {j \in Jobs : DispatchedJobs[j].runner # Null}

\* status_update and job_complete frames carrying any status
LifecycleFrames ==
    \/ \E s \in Sessions, j \in RunnerJobs, status \in FrameStatus :
          ReceiveJobStatusUpdate(s, j, status)
    \/ \E s \in Sessions, x \in Steps, status \in FrameStatus :
          ReceiveStepStatusUpdate(s, x, status)
    \/ \E s \in Sessions, j \in RunnerJobs, status \in {"success", "running"} :
          ReceiveJobComplete(s, j, status)

NextLifecycle == OwnSessionConnects \/ LifecycleFrames

SpecLifecycle == Init /\ [][NextLifecycle]_vars

\* the runners that belong to a tenant open their sessions
TenantRunnerConnects ==
    \E r \in Runners \cap Sessions :
        RunnerTenant(r) # Null /\ Connect(r, r, RunnerToken(r))

\* the frames of tenant runners that write rows
NextTenantRunner ==
    \/ TenantRunnerConnects
    \/ \E s \in Sessions, j \in Jobs, status \in ReportedStatus :
          ReceiveJobStatusUpdate(s, j, status)
    \/ \E s \in Sessions, x \in Steps, status \in ReportedStatus :
          ReceiveStepStatusUpdate(s, x, status)
    \/ \E s \in Sessions, j \in Jobs : ReceiveJobComplete(s, j, "success")
    \/ \E s \in Sessions, j \in Jobs : ReceiveArtifactReady(s, j, TRUE)
    \/ LogFrames

SpecTenantRunner == Init /\ [][NextTenantRunner]_vars

\* runners put in maintenance and taken out of it while sessions come and go
NextMaintenance ==
    \/ Handshake
    \/ \E s \in Sessions, n \in 0..MaxConcurrentJobs : ReceiveHeartbeat(s, n)
    \/ \E r \in Runners : Disable(r)
    \/ \E r \in Runners : Enable(r)

SpecMaintenance == Init /\ [][NextMaintenance]_vars

\* runner sessions and their heartbeats while time passes
NextOffline ==
    \/ RunnerConnects
    \/ RunnerDisconnects
    \/ \E s \in Sessions, n \in 0..MaxConcurrentJobs : ReceiveHeartbeat(s, n)
    \/ Tick

SpecOffline == Init /\ [][NextOffline]_vars /\ WF_vars(Tick)

\* the functions of the parser, the matcher, the expander and the tenant
\* middleware, each evaluated on one input
NextFunctions ==
    \/ EvalMatchesPush
    \/ EvalExpandMatrix
    \/ EvalValidateJobDependencies
    \/ EvalParse
    \/ EvalTenantMiddleware
    \/ EvalCheckDependenciesSatisfied
    \/ EvalGetExistingLogs
    \/ EvalApiKey

SpecFunctions == InitFunctions /\ [][NextFunctions]_vars

\* log subscribers of their own tenant while each runner stores and publishes
\* the logs of the steps of its job and reports the job running
NextBacklog ==
    \/ OwnSessionConnects
    \/ \E x \in Steps, content \in Contents :
          /\ jobs[StepJob(x)].runner \in Sessions
          /\ StoreLogSelectLast(jobs[StepJob(x)].runner, StepJob(x), x, content)
    \/ \E s \in Sessions : StoreLogInsert(s)
    \/ \E x \in Steps :
          /\ jobs[StepJob(x)].runner \in Sessions
          /\ ReceiveJobStatusUpdate(jobs[StepJob(x)].runner, StepJob(x), "running")
    \/ \E u \in Subscribers, id \in ExecutionIds, j \in Jobs \cup {Null} :
          SubscriberConnect(u, TRUE, ExecutionById(id).tenant, id, j)
    \/ \E u \in Subscribers : SendHistory(u)
    \/ \E u \in Subscribers : SubscriberDispatch(u)

SpecBacklog == Init /\ [][NextBacklog]_vars

\* subscribers of an execution of their tenant while each runner reports the
\* status of its job and of the job's steps
NextStatus ==
    \/ OwnSessionConnects
    \/ \E j \in Jobs, status \in ReportedStatus :
          /\ jobs[j].runner \in Sessions
          /\ ReceiveJobStatusUpdate(jobs[j].runner, j, status)
    \/ \E x \in Steps, status \in ReportedStatus :
          /\ jobs[StepJob(x)].runner \in Sessions
          /\ ReceiveStepStatusUpdate(jobs[StepJob(x)].runner, x, status)
    \/ \E j \in Jobs, status \in ReportedStatus \ {"running"} :
          /\ jobs[j].runner \in Sessions
          /\ ReceiveJobComplete(jobs[j].runner, j, status)
    \/ \E u \in Subscribers, id \in ExecutionIds :
          SubscriberConnect(u, TRUE, ExecutionById(id).tenant, id, Null)
    \/ \E u \in Subscribers : SendHistory(u)
    \/ \E u \in Subscribers : SubscriberDispatch(u)

SpecStatus == Init /\ [][NextStatus]_vars

\* a worker thread serving one request after the other, the handlers running
\* TenantContext blocks; the requests are those of clients not logged in, with
\* a host name of two parts
NextContext ==
    \/ \E request \in {q \in TenantRequests : q.user_tenant = Null /\ q.host_parts = 2} :
          MiddlewareEnter(request)
    \/ \E tenant \in Tenants : TenantContextEnter(tenant)
    \/ TenantContextExit
    \/ \E raised \in BOOLEAN : MiddlewareExit(raised)

SpecContext == Init /\ [][NextContext]_vars

\* -------------------------------------------------------------- properties

RequestsOn(p) ==
    {r \in Requests : requests[r].pipeline = p /\ requests[r].pc \in {"created", "conflict"}}

\* C1: concurrently creating N executions on one pipeline (push, pull_request,
\* manual trigger, retry) yields the numbers 1..N without duplicates: every
\* creation succeeds and no two executions of a pipeline share a number.
C1_NumberingUnderContention ==
    \A p \in Pipelines :
        /\ PipelineNumbers(p) = 1..Cardinality(RequestsOn(p))
        /\ Cardinality(PipelineExecutions(p)) = Cardinality(PipelineNumbers(p))
        /\ \A r \in Requests : requests[r].pc # "conflict"

\* C2: terminal states are absorbing: no step changes the status of an
\* execution, job or step that is success, failed, cancelled, timeout or skipped.
C2_TerminalAbsorbing ==
    [][/\ \A j \in DOMAIN jobs :
             jobs[j].status \in TerminalStatus => jobs'[j].status = jobs[j].status
       /\ \A x \in DOMAIN steps :
             steps[x].status \in TerminalStatus => steps'[x].status = steps[x].status
       /\ \A e \in executions :
             e.status \in TerminalStatus =>
                \E f \in executions' : f.id = e.id /\ f.status = e.status]_vars

\* C3: the chunk numbers of a step have no gaps and no duplicates and grow in
\* arrival order, and no accepted log frame is lost to a numbering conflict.
C3_LogChunkNumbering ==
    /\ \A x \in Steps :
          /\ {c.chunk_number : c \in StepChunks(x)} = 0..(Cardinality(StepChunks(x)) - 1)
          /\ \A c, d \in StepChunks(x) : c.id < d.id => c.chunk_number < d.chunk_number
    /\ \A s \in Sessions : sessions[s].raised_on # "log_conflict"

\* C4: every backlog frame and every live frame delivered to a log subscriber
\* belongs to a job of an execution of the subscriber's own tenant.
C4_SubscriberTenantMatch ==
    \A u \in Subscribers : \A f \in subscribers[u].received :
        /\ f.job_id \in DOMAIN jobs
        /\ ExecutionById(jobs[f.job_id].execution).tenant = subscribers[u].tenant

TokenMatches(s) ==
    /\ sessions[s].token # Null
    /\ sessions[s].runner_id \in Runners
    /\ Sha256(sessions[s].token) = runners[sessions[s].runner_id].token_hash

\* C5: a connection whose token is missing or whose SHA-256 differs from the
\* stored token_hash of its runner_id is never accepted, joins no group, gets
\* no connected frame and has no inbound frame handled; a runner is online only
\* when a connection that passed the check marked it so.
C5_HandshakeRequiresToken ==
    /\ \A s \in Sessions :
          (\/ sessions[s].accepted
           \/ sessions[s].connected_sent
           \/ sessions[s].handled
           \/ sessions[s].state \in {"open", "crashed"}
           \/ \E g \in groups : g[2] = RunnerChannel(s)) => TokenMatches(s)
    /\ \A r \in Runners :
          runners[r].status = "online" =>
             \E s \in Sessions :
                sessions[s].accepted /\ sessions[s].runner_id = r /\ TokenMatches(s)

\* a handshake with another runner's token was refused while a session that
\* passed the check is open and has had a frame handled
C5_Witness ==
    \E s, s2 \in Sessions :
        /\ sessions[s].state = "rejected"
        /\ sessions[s].runner_id \in Runners
        /\ sessions[s].token # Null
        /\ ~TokenMatches(s)
        /\ sessions[s2].state = "open"
        /\ sessions[s2].handled

\* C6: after the disconnect of a runner's session has been processed, every job
\* assigned to that runner and not yet terminal is pending.
C6_DisconnectRequeuesJobs ==
    \A s \in Sessions :
        sessions[s].state = "closed" /\ sessions[s].accepted =>
           \A j \in DOMAIN jobs :
              jobs[j].runner = sessions[s].runner_id
                 /\ jobs[j].status \notin TerminalStatus => jobs[j].status = "pending"

InFlight(r) == {j \in DOMAIN jobs : jobs[j].runner = r /\ jobs[j].status \notin TerminalStatus}

\* C7: every dispatch pairs with exactly one decrement: a runner's current_jobs
\* is the number of jobs dispatched to it and not yet completed, and never
\* below 0, over any sequence of heartbeat, job_complete and disconnect events.
C7_DispatchPairsWithDecrement ==
    \A r \in Runners :
        /\ runners[r].current_jobs >= 0
        /\ runners[r].current_jobs = Cardinality(InFlight(r))

\* C8: once a cancel command on execution E has completed, E is cancelled and
\* no job of E is pending, queued or running, whatever runner frames arrive.
C8_CancelLeavesNoActiveJob ==
    \A c \in Cancels :
        cancels[c].pc = "done" =>
           /\ ExecutionById(cancels[c].execution).status = "cancelled"
           /\ \A j \in DOMAIN jobs :
                 jobs[j].execution = cancels[c].execution =>
                    jobs[j].status \notin {"pending", "queued", "running"}

\* C9: a completed cancel command has emitted job_cancel{job_id} to the open
\* session of the runner of every job it cancelled.
C9_CancelEmitsJobCancel ==
    \A c \in Cancels :
        cancels[c].pc = "done" =>
           \A j \in cancels[c].cancelled_jobs :
              (\E s \in Sessions : sessions[s].state = "open"
                                       /\ sessions[s].runner_id = jobs[j].runner) =>
                 [group |-> RunnerGroup(jobs[j].runner), type |-> "job_cancel",
                  job_id |-> j] \in outbox

\* C10: no inbound frame ends a runner session: a frame that cannot be handled
\* is answered with an error frame and the session goes on.
C10_FrameErrorsIsolated ==
    \A s \in Sessions :
        /\ sessions[s].raised_on = "none"
        /\ sessions[s].state # "crashed"

\* C11: a job or a step has a finished_at exactly when its status is terminal,
\* whichever of status_update, job_complete or cancel wrote the status.
C11_FinishedAtIffTerminal ==
    /\ \A j \in DOMAIN jobs : jobs[j].finished_at <=> jobs[j].status \in TerminalStatus
    /\ \A x \in DOMAIN steps : steps[x].finished_at <=> steps[x].status \in TerminalStatus

TenantOfJob(j) == ExecutionById(jobs[j].execution).tenant

WrittenBy(tenant) ==
    \E s \in Sessions :
        sessions[s].accepted /\ RunnerTenant(sessions[s].runner_id) = tenant

\* C12: the frames of sessions of runners bound to a tenant change job and step
\* rows and create artifacts and log chunks only for jobs of an execution of
\* that tenant.
C12_NoCrossTenantWrite ==
    /\ \A j \in DOMAIN jobs :
          (jobs[j] # DispatchedJobs[j] \/ \E a \in artifacts : a.job = j)
             => WrittenBy(TenantOfJob(j))
    /\ \A x \in DOMAIN steps :
          (steps[x] # InitSteps[x] \/ StepChunks(x) # {})
             => WrittenBy(TenantOfJob(steps[x].job))

Stage(status) ==
    CASE status = "pending" -> 0
      [] status = "queued" -> 1
      [] status = "running" -> 2
      [] OTHER -> 3

\* C20: every status change of an execution, job or step follows pending ->
\* queued -> running -> terminal: the status is a declared one, no change goes
\* to an earlier stage, and only a step goes from pending directly to skipped.
C20_StatusLifecycle ==
    [][/\ \A j \in DOMAIN jobs :
             /\ jobs'[j].status \in JobStatus
             /\ Stage(jobs'[j].status) >= Stage(jobs[j].status)
             /\ ~(jobs[j].status = "pending" /\ jobs'[j].status = "skipped")
       /\ \A x \in DOMAIN steps :
             /\ steps'[x].status \in StepStatus
             /\ Stage(steps'[x].status) >= Stage(steps[x].status)
       /\ \A e \in executions : \A f \in executions' :
             f.id = e.id =>
                /\ f.status \in ExecutionStatus
                /\ Stage(f.status) >= Stage(e.status)]_vars

IsHighestValid(id, p) ==
    \E c \in configs :
        /\ c.id = id /\ c.pipeline = p /\ c.is_valid
        /\ \A d \in configs : d.pipeline = p /\ d.is_valid => d.version <= c.version

\* C13: every execution created by a webhook or by the manual trigger references
\* a valid config of its pipeline, which was the valid config of the highest
\* version when the request read it; without a valid config nothing is created.
C13_TriggerNeedsValidConfig ==
    [][/\ \A r \in Requests :
             requests[r].pc # "read" /\ requests'[r].pc = "read"
                /\ requests'[r].kind # "retry"
                => IsHighestValid(requests'[r].config, requests'[r].pipeline)
       /\ \A e \in executions' :
             e.retry_of = Null /\ e.id \notin ExecutionIds =>
                /\ \E r \in Requests : requests[r].pc = "read"
                                    /\ requests[r].config = e.pipeline_config
                /\ \E c \in configs : c.id = e.pipeline_config /\ c.is_valid
                                    /\ c.pipeline = e.pipeline
       /\ \A p \in Pipelines :
             (\A c \in configs : c.pipeline = p => ~c.is_valid) =>
                \A e \in executions' : e.pipeline = p => e \in executions]_vars

\* an execution runs on a config of version 2 while an older valid config of its
\* pipeline exists, and a trigger of a pipeline without valid config was refused
C13_Witness ==
    /\ \E e \in executions : \E c, d \in configs :
          /\ e.retry_of = Null /\ c.id = e.pipeline_config
          /\ d.pipeline = c.pipeline /\ d.is_valid /\ d.version < c.version
    /\ \E r \in Requests : requests[r].pc = "no_config"

GroupOf(e) ==
    IF e.pipeline_config = Null THEN ""
    ELSE ParsePipelineYaml(ConfigById(e.pipeline_config).config_yaml).concurrency.group

\* C14: of the executions of one pipeline whose config declares the same
\* concurrency group, cancel_in_progress being false, at most one is pending,
\* queued or running.
C14_ConcurrencyGroupExclusive ==
    \A e, f \in executions :
        /\ e.pipeline = f.pipeline
        /\ GroupOf(e) # "" /\ GroupOf(e) = GroupOf(f)
        /\ e.status \in {"pending", "queued", "running"}
        /\ f.status \in {"pending", "queued", "running"}
        => e.id = f.id

HasSecret(candidates) == \E i \in DOMAIN candidates : WebhookSecret(candidates[i]) # Null

BadSignature(q) ==
    \/ q.signature = <<>>
    \/ q.signature[1] # "sha256="
    \/ \A i \in DOMAIN q.candidates :
          \/ WebhookSecret(q.candidates[i]) = Null
          \/ q.signature[2] # ComputeSignature(WebhookSecret(q.candidates[i]))

Refused(r) ==
    /\ requests[r].kind \in {"push", "pull_request"}
    /\ HasSecret(requests[r].candidates)
    /\ BadSignature(requests[r])

\* C15: a push or pull_request delivery whose signature is missing, lacks the
\* sha256= prefix or verifies against no candidate's secret, one candidate at
\* least having a secret, is answered 401, creates no execution and changes no
\* pipeline.
C15_BadSignatureRejected ==
    /\ \A r \in Requests :
          Refused(r) =>
             /\ requests[r].pc = "unauthorized"
             /\ requests[r].triggered = 0
             /\ \A e \in executions : e.delivery_id # r
    /\ \A p \in Pipelines :
          pipelines[p].last_execution_at # 0 =>
             \E e \in executions :
                /\ e.id = pipelines[p].last_execution_at
                /\ e.pipeline = p
                /\ e.delivery_id # Null => ~Refused(e.delivery_id)

\* a delivery signed with the right digest under the prefix sha1= was refused,
\* and another delivery created an execution
C15_Witness ==
    /\ \E r \in Requests :
          /\ requests[r].pc = "unauthorized"
          /\ requests[r].signature # <<>>
          /\ requests[r].signature[1] = "sha1="
          /\ \E i \in DOMAIN requests[r].candidates :
                /\ WebhookSecret(requests[r].candidates[i]) # Null
                /\ requests[r].signature[2] =
                      ComputeSignature(WebhookSecret(requests[r].candidates[i]))
    /\ \E r \in Requests : requests[r].triggered > 0

\* C16: a webhook delivery never fails as a whole: when the creation for one
\* candidate pipeline fails the other candidates are still evaluated, and the
\* response counts the executions the delivery created.
C16_WebhookNeverFails ==
    \A r \in Requests :
        requests[r].kind \in {"push", "pull_request"} =>
           /\ requests[r].pc # "conflict"
           /\ requests[r].pc \in {"created", "skipped"} =>
                 /\ requests[r].rest = <<>>
                 /\ requests[r].triggered =
                       Cardinality({e \in executions : e.delivery_id = r})

\* C17: every creation allocates max(existing numbers of the pipeline) + 1, a
\* number greater than every number in use, also after executions were pruned.
C17_NumberIsMaxPlusOne ==
    [][/\ \A r \in Requests :
             requests[r].pc # "read" /\ requests'[r].pc = "read" =>
                requests'[r].number = LastNumber(requests'[r].pipeline) + 1
       /\ \A e \in executions' :
             e.id \notin ExecutionIds =>
                \A f \in executions : f.pipeline = e.pipeline => f.number < e.number]_vars

\* C18: no two configs of a pipeline share a version, and a config stored later
\* has a greater version than every config of the pipeline stored before it.
C18_ConfigVersionsUniqueIncreasing ==
    \A c, d \in configs :
        c.pipeline = d.pipeline =>
           /\ c.version = d.version => c.id = d.id
           /\ c.id < d.id => c.version < d.version

\* two requests read the same last version: one stored its config, the other was
\* refused, and a later request stored the next version
C18_Witness ==
    /\ \E u \in Updates : updates[u].pc = "conflict"
    /\ \E c, d \in configs : c.pipeline = d.pipeline /\ c.version < d.version

\* C19: storing a config leaves every stored config and the config reference of
\* every execution as they are, and a retry takes the config reference of the
\* execution it retries.
C19_ConfigFrozen ==
    [][/\ configs \subseteq configs'
       /\ \A e \in executions : \A f \in executions' :
             f.id = e.id => f.pipeline_config = e.pipeline_config
       /\ \A f \in executions' :
             f.id \notin ExecutionIds /\ f.retry_of # Null =>
                f.pipeline_config = ExecutionById(f.retry_of).pipeline_config]_vars

\* a retry runs on the config of the execution it retries although the pipeline
\* has a newer valid config
C19_Witness ==
    \E f \in executions :
        /\ f.retry_of # Null
        /\ f.pipeline_config # LatestConfig(f.pipeline)
        /\ \E c \in configs : c.id = LatestConfig(f.pipeline) /\ c.id > f.pipeline_config

\* C21: a runner in maintenance is not available, and it leaves maintenance only
\* by an enable call, whatever its sessions do in between.
C21_MaintenanceUntilEnable ==
    [][\A r \in Runners :
          runners[r].status = "maintenance" =>
             /\ ~IsAvailable(r)
             /\ runners'[r].status = "maintenance" \/ Enable(r)]_vars

\* C22: a runner marked online and not heard from for longer than the offline
\* threshold is eventually marked offline.
C22_SilentRunnerMarkedOffline ==
    \A r \in Runners :
        (runners[r].status = "online" /\ CheckOffline(r)) ~>
            (runners[r].status = "offline")

\* C23: for a non-empty on.push config matches_push returns the result of the
\* six-step procedure: the tag or branch filters first, then, for tag pushes as
\* well as branch pushes, the path filters.
C23_MatchesPushSixSteps ==
    (call.fn = "matches_push" /\ call.done /\ call.input[2].kind = "filters") =>
        LET event == call.input[1]
            config == call.input[2]
            files == event.changed_files
            inList(v, ps) == \E i \in 1..Len(ps) : MatchesPattern(v, ps[i])
            pathInList(f, ps) == \E i \in 1..Len(ps) : MatchesPathPattern(f, ps[i])
            refPasses ==
                IF event.is_tag
                THEN /\ ~inList(event.ref, config.tags_ignore)
                     /\ config.tags # <<>>
                     /\ inList(event.ref, config.tags)
                ELSE /\ ~inList(event.ref, config.branches_ignore)
                     /\ config.branches # <<>> => inList(event.ref, config.branches)
            pathsPass ==
                /\ ~(/\ config.paths_ignore # <<>>
                     /\ files # <<>>
                     /\ \A i \in 1..Len(files) : pathInList(files[i], config.paths_ignore))
                /\ config.paths # <<>> =>
                      \E i \in 1..Len(files) : pathInList(files[i], config.paths)
        IN  call.result = (refPasses /\ pathsPass)

\* C24: with paths-ignore ['**/*.md'] a branch push that changes only a file at
\* the root and a file in a directory, both ending in .md, does not match.
C24_DoubleStarMatchesAtRoot ==
    (/\ call.fn = "matches_push"
     /\ call.done
     /\ call.input[2].kind = "filters"
     /\ ~call.input[1].is_tag
     /\ call.input[2].branches = <<>>
     /\ call.input[2].branches_ignore = <<>>
     /\ call.input[2].paths = <<>>
     /\ call.input[2].paths_ignore = << <<"*", "*", "/", "*", ".", "m">> >>
     /\ call.input[1].changed_files =
            << <<"r", ".", "m">>, <<"d", "/", "a", ".", "m">> >>)
        => call.result = FALSE

\* C25: the number of combinations of a strategy is the product of the sizes of
\* the variable lists (1 for no variable, as for the empty matrix), minus the
\* base combinations dropped by exclude, plus the number of include entries.
C25_MatrixCompleteness ==
    (call.fn = "expand_matrix" /\ call.done) =>
        LET matrix == call.input.matrix
            RECURSIVE Sizes(_)
            Sizes(vs) == IF vs = <<>> THEN 1 ELSE Len(vs[1][2]) * Sizes(Tail(vs))
            base == Product(matrix.variables)
            excluded == {i \in 1..Len(base) : ShouldExclude(base[i], matrix.exclude)}
        IN  /\ Len(call.result) = CountMatrixCombinations(call.input)
            /\ Len(call.result) =
                  IF matrix = <<>> THEN 1
                  ELSE Sizes(matrix.variables) - Cardinality(excluded)
                          + Len(matrix.include)

C27_CyclesDetected ==
    (call.fn = "validate_job_dependencies" /\ call.done) =>
        LET job_map == call.input
            keys == {job_map[i].key : i \in 1..Len(job_map)}
            needs(k) == LET job == job_map[CHOOSE i \in 1..Len(job_map) :
                                              job_map[i].key = k]
                        IN  {job.needs[n] : n \in 1..Len(job.needs)} \cap keys
            RECURSIVE reach(_, _)
            reach(k, hops) ==
                IF hops = 0 THEN {}
                ELSE needs(k) \cup UNION {reach(d, hops - 1) : d \in needs(k)}
            cyclic == \E k \in keys : k \in reach(k, Len(job_map))
            circular == {e \in 1..Len(call.result) :
                            call.result[e] = "Circular dependency detected in job graph"}
        IN  /\ Cardinality(circular) = IF cyclic THEN 1 ELSE 0
            /\ cyclic => call.result # <<>>

\* a cycle between the second and the third job was reported although the
\* first job needs nothing
C27_Witness ==
    /\ call.fn = "validate_job_dependencies"
    /\ call.done
    /\ Len(call.input) = 3
    /\ call.input[1].needs = <<>>
    /\ call.input[2].needs = <<"c">>
    /\ call.input[3].needs = <<"b">>
    /\ call.result = <<"Circular dependency detected in job graph">>

\* C28: parse raises nothing, whatever the shape of the document: every
\* failure is an entry of the errors it returns.
C28_ParserNeverThrows ==
    (call.fn = "parse" /\ call.done) => call.result.raised = "none"

\* C29: the tenant set on the request and in the thread context is the first
\* non-null of the user's tenant, the API key's tenant, the subdomain's tenant
\* (www, api, app and admin skipped) and, in self-hosted mode, the default tenant.
C29_TenantResolutionOrder ==
    (call.fn = "tenant_middleware" /\ call.done) =>
        LET request == call.input
            subdomain_tenant ==
                IF request.host_parts >= 2
                   /\ request.subdomain \notin {"www", "api", "app", "admin"}
                THEN request.slug_tenant
                ELSE Null
            resolved ==
                IF request.user_tenant # Null THEN request.user_tenant
                ELSE IF request.api_key_tenant # Null THEN request.api_key_tenant
                ELSE IF subdomain_tenant # Null THEN subdomain_tenant
                ELSE IF request.deployment_mode = "self_hosted"
                THEN request.default_tenant
                ELSE Null
        IN  /\ call.result.has_tenant
            /\ call.result.tenant = resolved
            /\ call.result.current_tenant = resolved

\* C30: every frame a subscriber got from storage was sent before its
\* history_complete marker and every live frame after it, also when the frame
\* was published while the subscriber's connect was still running.
C30_MarkerSeparatesBacklog ==
    \A u \in Subscribers :
        /\ \A f \in subscribers[u].before_marker : f.phase = "backlog"
        /\ \A f \in subscribers[u].received :
              IF f.phase = "backlog"
              THEN f \in subscribers[u].before_marker
              ELSE /\ subscribers[u].state \in {"open", "closed"}
                   /\ f \notin subscribers[u].before_marker

\* a frame published before the marker was sent waited, and was sent after the
\* backlog and the marker
C30_Witness ==
    \E u \in Subscribers :
        /\ subscribers[u].state = "open"
        /\ subscribers[u].mailbox = {}
        /\ \E f \in subscribers[u].before_marker : f.phase = "backlog"
        /\ \E f \in subscribers[u].received \ subscribers[u].before_marker :
              /\ f.phase = "live"
              /\ \E b \in subscribers[u].before_marker :
                    b.step_id = f.step_id /\ b.content = f.content

\* C31: every log frame a subscriber got live from a log group is the frame of
\* a LogChunk in storage: a frame that store_log could not store is not
\* broadcast
C31_PublishedLogsAreStored ==
    \A u \in Subscribers :
        \A f \in subscribers[u].received \cup subscribers[u].mailbox :
            (f.type = "log" /\ f.phase = "live")
                => \E c \in logChunks : c.step = f.step_id /\ c.content = f.content

\* C32: check_dependencies_satisfied is true exactly when every key of needs
\* has at least one job in the execution and all the execution's jobs with
\* that key have status success.
C32_ReadyIffAllNeedsSucceeded ==
    (call.fn = "check_dependencies_satisfied" /\ call.done) =>
        LET job == call.input
            WithKey(key) == {row \in job.rows : row.execution = job.execution
                                                /\ row.job_key = key}
        IN  call.result <=>
                \A key \in job.needs :
                    /\ WithKey(key) # {}
                    /\ \A row \in WithKey(key) : row.status = "success"

\* C33: every status change a runner reports, of a job or of a step, by
\* status_update or by job_complete, puts one status_update message with the
\* new status on the execution's log group, after the entity was changed.
C33_StatusChangesPublished ==
    [][\A u \in Subscribers :
         LET InGroup(j) ==
                 <<ExecutionLogGroup(jobs[j].execution), SubscriberChannel(u)>> \in groups
             Got(j, x, status) ==
                 \E f \in subscribers'[u].received \cup subscribers'[u].mailbox :
                     /\ f.type = "status_update"
                     /\ f.job_id = j
                     /\ f.step_id = x
                     /\ f.status = status
         IN  /\ \A j \in Jobs :
                   (jobs'[j].status # jobs[j].status /\ InGroup(j))
                       => Got(j, Null, jobs'[j].status)
             /\ \A x \in Steps :
                   (steps'[x].status # steps[x].status /\ InGroup(steps[x].job))
                       => Got(steps[x].job, x, steps'[x].status)]_vars

\* C34: when more chunks match the subscription than the bound, the backlog
\* is the bound-many most recent chunks, in (job_id, step_order, chunk_number)
\* order.
C34_BacklogMostRecent ==
    (call.fn = "get_existing_logs" /\ call.done) =>
        LET rows == call.input
            logs == call.result
            recent == {a \in rows : a.id > Cardinality(rows) - BacklogLimit}
        IN  /\ Len(logs) <= BacklogLimit
            /\ \A i, k \in DOMAIN logs : i < k => BacklogBefore(logs[i], logs[k])
            /\ Cardinality(rows) > BacklogLimit
                   => {logs[i] : i \in DOMAIN logs} = recent

\* C35: a connection attempt that fails the handshake, and the disconnect
\* that follows its close, leave the runner named in the URL as it was:
\* status, last_heartbeat and current_jobs.
C35_RejectedAttemptChangesNothing ==
    [][\A s \in Sessions :
          (\/ sessions[s].state = "idle" /\ sessions'[s].state = "rejected"
           \/ sessions[s].state = "rejected" /\ sessions'[s].state = "closed")
              => runners' = runners]_vars

\* C36: a runner stays online as long as one of its authenticated sessions is
\* open: the disconnect of an older session does not mark a reconnected
\* runner offline.
C36_OnlineWhileSessionOpen ==
    \A s \in Sessions :
        sessions[s].state = "open" => runners[sessions[s].runner_id].status = "online"

\* C37: a webhook creates an execution for a pipeline that has a webhook
\* secret only when the delivery's signature verifies against the secret of
\* that pipeline.
C37_TriggeredOnlyByOwnSecret ==
    \A e \in executions :
        (e.delivery_id # Null /\ WebhookSecret(e.pipeline) # Null)
            => VerifyGithubSignature(requests[e.delivery_id].signature,
                                     WebhookSecret(e.pipeline))

\* C38: the thread's tenant is cleared once the middleware is through with a
\* request, whether the handler returned or raised, so the next request on
\* the thread runs under the tenant it resolves itself, none when it resolves
\* none; and leaving a TenantContext block brings back the tenant that was
\* current when the block was entered.
C38_NoTenantLeak ==
    [][LET resolved == TenantMiddlewareCall(thread'.request).current_tenant
           rest == thread'.blocks
       IN  /\ thread'.pc = "idle" => thread'.tenant = Null
           /\ (thread.pc = "idle" /\ thread'.pc = "handling")
                 => thread'.tenant = resolved
           /\ Len(rest) < Len(thread.blocks)
                 => thread'.tenant = IF rest = <<>> THEN resolved
                                     ELSE rest[Len(rest)].tenant]_vars

\* after a request that ran under a tenant and raised, a request that resolves
\* no tenant has entered and left a block and runs under no tenant
C38_Witness ==
    /\ thread.pc = "handling"
    /\ thread.outcome = "raised"
    /\ thread.served_tenant # Null
    /\ TenantMiddlewareCall(thread.request).current_tenant = Null
    /\ thread.exited
    /\ thread.blocks = <<>>
    /\ thread.tenant = Null

\* C39: an API key that is inactive or past its expires_at gives a request no
\* tenant, neither through the middleware's X-API-Key lookup nor through
\* APIKeyAuthentication, and the two accept the same keys.
C39_InvalidKeyResolvesNothing ==
    (call.fn = "api_key" /\ call.done) =>
        LET lookup == call.input
            unusable ==
                \/ ~lookup.key.is_active
                \/ lookup.key.expires_at # Null /\ lookup.time > lookup.key.expires_at
        IN  /\ unusable => (call.result.middleware = Null
                            /\ call.result.authentication = Null)
            /\ call.result.middleware = call.result.authentication

\* C40: a subscriber gets each stored chunk at most once, in the backlog or as
\* a live frame: for every step it got no more log frames than the step has
\* chunks.
C40_ChunkDeliveredAtMostOnce ==
    \A u \in Subscribers, x \in Steps :
        Cardinality({f \in subscribers[u].received : f.type = "log" /\ f.step_id = x})
            <= Cardinality(StepChunks(x))

=============================================================================
